---- MODULE Spec2Model ----
(***************************************************************************)
(* Model of flexget.utils.parsers.parser.TitleParser (the vocabulary lists *)
(* and the static methods re_not_in_word, strip_spaces, remove_words and   *)
(* ireplace) and of flexget.utils.log.log_once.                            *)
(*                                                                         *)
(* A Python str is a sequence of one-character strings.  A regular         *)
(* expression is the str the code builds (re.escape output, wrapped by     *)
(* re_not_in_word); re_compile parses that str, and re_sub scans, matches  *)
(* and expands the replacement template as the re module does.             *)
(***************************************************************************)
EXTENDS Integers, Sequences, FiniteSets, TLC

VARIABLES call, pc, out, raised, hits, vocab, threads, manager, table, logged, results,
          session, sonarr, flog, fops, mal

\* one call of a TitleParser method: the call, where it is, what it returned
callVars == <<call, pc, out, raised, hits>>

\* log_once: the manager, the log_once table, what was logged and returned
logVars == <<manager, table, logged, results>>

\* a ContextSession, the Sonarr input plugin, the module flexget.log, the
\* file operation plugins, the MyAnimeList input plugin
plugVars == <<session, sonarr, flog, fops, mal>>

vars == <<call, pc, out, raised, hits, vocab, threads, manager, table, logged, results,
          session, sonarr, flog, fops, mal>>

----------------------------------------------------------------------------
(* Characters *)

LowerCase ==
  <<"a","b","c","d","e","f","g","h","i","j","k","l","m",
    "n","o","p","q","r","s","t","u","v","w","x","y","z">>

UpperCase ==
  <<"A","B","C","D","E","F","G","H","I","J","K","L","M",
    "N","O","P","Q","R","S","T","U","V","W","X","Y","Z">>

Digits == {"0","1","2","3","4","5","6","7","8","9"}

Range(s) == {s[i] : i \in DOMAIN s}

IsLetter(c) == c \in Range(LowerCase) \cup Range(UpperCase)

IsAlnum(c) == IsLetter(c) \/ c \in Digits

\* \w of the re module: letters, digits and the underscore
IsWordChar(c) == IsAlnum(c) \/ c = "_"

\* the whitespace str.split() splits on
IsSpace(c) == c \in {" ", "\t", "\n", "\r", "\f"}

tolower(c) ==
  IF c \in Range(UpperCase)
    THEN LowerCase[CHOOSE i \in DOMAIN UpperCase : UpperCase[i] = c]
    ELSE c

----------------------------------------------------------------------------
(* The re module, as far as ireplace uses it *)

\* the characters re.escape puts a backslash before
SpecialChars ==
  {"(", ")", "[", "]", "{", "}", "?", "*", "+", "-", "|", "^", "$",
   "\\", ".", "&", "~", "#", " ", "\t", "\n", "\r", "\f"}

\* faulty variant: nothing is escaped
re_escape_Nothing(s) == s

RECURSIVE re_escape(_)
re_escape(s) ==
  IF s = <<>> THEN <<>>
  ELSE (IF Head(s) \in SpecialChars THEN <<"\\", Head(s)>> ELSE <<Head(s)>>)
       \o re_escape(Tail(s))

\* r'(?<![^\W_])' and r'(?![^\W_])'
LookBehind == <<"(", "?", "<", "!", "[", "^", "\\", "W", "_", "]", ")">>

LookAhead == <<"(", "?", "!", "[", "^", "\\", "W", "_", "]", ")">>

\* the class [^\W_]: a word character other than the underscore
InNotInWordClass(c) == IsWordChar(c) /\ c # "_"

\* faulty variant: the lookahead is left out
re_not_in_word_NoLookAhead(regexp) == LookBehind \o regexp

re_not_in_word(regexp) == LookBehind \o regexp \o LookAhead

HasPrefix(s, p) == Len(s) >= Len(p) /\ SubSeq(s, 1, Len(p)) = p

HasSuffix(s, p) == Len(s) >= Len(p) /\ SubSeq(s, Len(s) - Len(p) + 1, Len(s)) = p

\* the atoms of a pattern body: an escaped character matches itself,
\* a bare dot matches any character but a newline
RECURSIVE ParseAtoms(_)
ParseAtoms(p) ==
  IF p = <<>> THEN <<>>
  ELSE IF Head(p) = "\\" /\ Len(p) >= 2
    THEN <<[kind |-> "lit", ch |-> p[2]]>> \o ParseAtoms(Tail(Tail(p)))
  ELSE IF Head(p) = "."
    THEN <<[kind |-> "any", ch |-> "."]>> \o ParseAtoms(Tail(p))
  ELSE <<[kind |-> "lit", ch |-> Head(p)]>> \o ParseAtoms(Tail(p))

\* re.compile(old, re.IGNORECASE): a leading (?<![^\W_]) and a trailing
\* (?![^\W_]) are assertions, what is between them is the body
re_compile(p) ==
  LET behind == HasPrefix(p, LookBehind)
      rest == IF behind THEN SubSeq(p, Len(LookBehind) + 1, Len(p)) ELSE p
      ahead == HasSuffix(rest, LookAhead)
      body == IF ahead THEN SubSeq(rest, 1, Len(rest) - Len(LookAhead)) ELSE rest
  IN [lookbehind |-> behind, atoms |-> ParseAtoms(body), lookahead |-> ahead]

\* faulty variant: re.IGNORECASE is left out
AtomMatches_CaseSensitive(atom, c) ==
  IF atom.kind = "any" THEN c # "\n" ELSE atom.ch = c

\* one atom against one character under re.IGNORECASE
AtomMatches(atom, c) ==
  IF atom.kind = "any" THEN c # "\n" ELSE tolower(atom.ch) = tolower(c)

\* the pattern matches data[i+1 .. i+n], i the number of characters before it
MatchAt(pattern, data, i) ==
  LET n == Len(pattern.atoms) IN
    /\ i + n <= Len(data)
    /\ \A k \in 1..n : AtomMatches(pattern.atoms[k], data[i + k])
    /\ pattern.lookbehind => (i = 0 \/ ~InNotInWordClass(data[i]))
    /\ pattern.lookahead => (i + n = Len(data) \/ ~InNotInWordClass(data[i + n + 1]))

\* faulty variant: the scan stops one match late
RECURSIVE Scan_OneMore(_, _, _, _, _)
Scan_OneMore(pattern, data, count, pos, found) ==
  IF count # 0 /\ found > count THEN <<>>
  ELSE LET starts == {i \in pos..Len(data) : MatchAt(pattern, data, i)} IN
    IF starts = {} THEN <<>>
    ELSE LET i == CHOOSE j \in starts : \A k \in starts : j <= k
             n == Len(pattern.atoms)
         IN <<i>> \o Scan_OneMore(pattern, data, count,
                                  IF n = 0 THEN i + 1 ELSE i + n, found + 1)

\* the scan of re.sub: the leftmost match at or after pos, then on from its
\* end (one further for an empty match), until count matches were found
RECURSIVE Scan(_, _, _, _, _)
Scan(pattern, data, count, pos, found) ==
  IF count # 0 /\ found >= count THEN <<>>
  ELSE LET starts == {i \in pos..Len(data) : MatchAt(pattern, data, i)} IN
    IF starts = {} THEN <<>>
    ELSE LET i == CHOOSE j \in starts : \A k \in starts : j <= k
             n == Len(pattern.atoms)
         IN <<i>> \o Scan(pattern, data, count, IF n = 0 THEN i + 1 ELSE i + n, found + 1)

\* chr(n): the characters this module writes as themselves, and a name for
\* every other one
Chr(n) ==
  IF n \in 97..122 THEN LowerCase[n - 96]
  ELSE IF n \in 65..90 THEN UpperCase[n - 64]
  ELSE IF n \in 48..57 THEN CHOOSE d \in Digits : d = ToString(n - 48)
  ELSE CASE n = 9 -> "\t" [] n = 10 -> "\n" [] n = 12 -> "\f" [] n = 13 -> "\r"
         [] n = 32 -> " " [] n = 46 -> "." [] n = 92 -> "\\" [] n = 95 -> "_"
         [] OTHER -> "chr(" \o ToString(n) \o ")"

OctDigits == {"0", "1", "2", "3", "4", "5", "6", "7"}

DigitValue(d) == CHOOSE v \in 0..9 : ToString(v) = d

\* the escapes of a replacement template that stand for one character
TemplateEscapes == {"\\", "a", "b", "f", "n", "r", "t", "v"}

EscapeChar(c) ==
  CASE c = "\\" -> "\\" [] c = "a" -> Chr(7) [] c = "b" -> Chr(8)
    [] c = "f" -> "\f" [] c = "n" -> "\n" [] c = "r" -> "\r"
    [] c = "t" -> "\t" [] c = "v" -> Chr(11)

\* the replacement template: a list of literal characters and references to
\* the whole match, or an error.  The pattern of ireplace has no group but
\* group 0, so \1 .. \99 and \g<name> are errors.
RECURSIVE parse_template(_)
parse_template(repl) ==
  LET Lit(c, rest) ==
        LET r == parse_template(rest) IN
          [ok |-> r.ok, parts |-> <<[kind |-> "lit", ch |-> c]>> \o r.parts]
      Error == [ok |-> FALSE, parts |-> <<>>]
      Oct(i) == i <= Len(repl) /\ repl[i] \in OctDigits
  IN
  IF repl = <<>> THEN [ok |-> TRUE, parts |-> <<>>]
  ELSE IF Head(repl) # "\\" THEN Lit(Head(repl), Tail(repl))
  ELSE IF Len(repl) = 1 THEN Error                  \* bad escape (end of pattern)
  ELSE IF repl[2] = "g"
    THEN IF HasPrefix(repl, <<"\\", "g", "<", "0", ">">>)
      THEN LET r == parse_template(SubSeq(repl, 6, Len(repl))) IN
        [ok |-> r.ok, parts |-> <<[kind |-> "group", ch |-> "0"]>> \o r.parts]
      ELSE Error                                    \* missing <, unknown group
  ELSE IF repl[2] = "0"
    THEN IF Oct(3) /\ Oct(4)
      THEN Lit(Chr((DigitValue(repl[3]) * 8 + DigitValue(repl[4])) % 256),
               SubSeq(repl, 5, Len(repl)))
      ELSE IF Oct(3)
        THEN Lit(Chr(DigitValue(repl[3])), SubSeq(repl, 4, Len(repl)))
        ELSE Lit(Chr(0), SubSeq(repl, 3, Len(repl)))
  ELSE IF repl[2] \in Digits
    THEN IF Oct(2) /\ Oct(3) /\ Oct(4)
      THEN LET c == DigitValue(repl[2]) * 64 + DigitValue(repl[3]) * 8 + DigitValue(repl[4])
           IN IF c > 255 THEN Error                 \* octal escape out of range
              ELSE Lit(Chr(c), SubSeq(repl, 5, Len(repl)))
      ELSE Error                                    \* invalid group reference
  ELSE IF repl[2] \in TemplateEscapes
    THEN Lit(EscapeChar(repl[2]), Tail(Tail(repl)))
  ELSE IF IsLetter(repl[2]) THEN Error              \* bad escape
  ELSE LET r == parse_template(Tail(Tail(repl))) IN
      [ok |-> r.ok,
       parts |-> <<[kind |-> "lit", ch |-> "\\"], [kind |-> "lit", ch |-> repl[2]]>> \o r.parts]

RECURSIVE Expand(_, _)
Expand(parts, matched) ==
  IF parts = <<>> THEN <<>>
  ELSE (IF Head(parts).kind = "group" THEN matched ELSE <<Head(parts).ch>>)
       \o Expand(Tail(parts), matched)

\* data with the matches starting at the offsets in starts (each n long)
\* replaced by the expanded template; from is the offset already copied
RECURSIVE Splice(_, _, _, _, _)
Splice(data, starts, n, parts, from) ==
  IF starts = <<>> THEN SubSeq(data, from + 1, Len(data))
  ELSE LET i == Head(starts) IN
    SubSeq(data, from + 1, i)
      \o Expand(parts, SubSeq(data, i + 1, i + n))
      \o Splice(data, Tail(starts), n, parts, i + n)

\* re.sub(pattern, repl, string, count): [raised, value, hits]
re_sub(pattern, repl, string, count) ==
  LET template == parse_template(repl)
      starts == Scan(pattern, string, count, 0, 0)
  IN IF ~template.ok
       THEN [raised |-> TRUE, value |-> <<>>, hits |-> <<>>]
       ELSE [raised |-> FALSE,
             value |-> Splice(string, starts, Len(pattern.atoms), template.parts, 0),
             hits |-> starts]

----------------------------------------------------------------------------
(* TitleParser *)

propers ==
  <<<<"p","r","o","p","e","r">>,
    <<"r","e","p","a","c","k">>,
    <<"r","e","r","i","p">>,
    <<"r","e","a","l">>,
    <<"f","i","n","a","l">>>>

specials ==
  <<<<"s","p","e","c","i","a","l">>,
    <<"b","o","n","u","s">>,
    <<"e","x","t","r","a">>,
    <<"o","m","a","k","e">>,
    <<"o","v","a">>>>

editions ==
  <<<<"d","c">>,
    <<"e","x","t","e","n","d","e","d">>,
    <<"u","n","c","u","t">>,
    <<"r","e","m","a","s","t","e","r","e","d">>,
    <<"u","n","r","a","t","e","d">>,
    <<"t","h","e","a","t","r","i","c","a","l">>,
    <<"c","h","r","o","n","o">>,
    <<"s","e">>>>

codecs ==
  <<<<"x","2","6","4">>,
    <<"x",".","2","6","4">>,
    <<"h","2","6","4">>,
    <<"h",".","2","6","4">>,
    <<"X","V","i","D">>>>

\* the list literal of cutoffs, before *specials and *editions
cutoffs_base ==
  <<<<"l","i","m","i","t","e","d">>,
    <<"x","v","i","d">>,
    <<"h","2","6","4">>,
    <<"x","2","6","4">>,
    <<"h",".","2","6","4">>,
    <<"x",".","2","6","4">>,
    <<"s","c","r","e","e","n","e","r">>,
    <<"u","n","r","a","t","e","d">>,
    <<"3","d">>,
    <<"e","x","t","e","n","d","e","d">>,
    <<"d","i","r","e","c","t","o","r","s">>,
    <<"d","i","r","e","c","t","o","r","'","s">>,
    <<"m","u","l","t","i","s","u","b","s">>,
    <<"d","u","b","b","e","d">>,
    <<"s","u","b","b","e","d">>,
    <<"m","u","l","t","i">>>>

\* faulty variant: specials and editions are not spliced in
cutoffs_BaseOnly == cutoffs_base

\* faulty variant: a token of cutoffs is not in lower case
cutoffs_MixedCase ==
  <<<<"L","i","m","i","t","e","d">>>> \o Tail(cutoffs_base) \o specials \o editions

cutoffs == cutoffs_base \o specials \o editions

remove ==
  <<<<"i","m","a","x">>>>

sounds ==
  <<<<"A","C","3">>,
    <<"D","D","5",".","1">>,
    <<"D","T","S">>>>

\* the class attributes of TitleParser, as the class statement leaves them
TitleParserLists ==
  [propers |-> propers, specials |-> specials, editions |-> editions,
   codecs |-> codecs, cutoffs |-> cutoffs, remove |-> remove, sounds |-> sounds]

\* faulty variant: only the space separates, text.split(' ') without the
\* empty pieces
RECURSIVE split_OnSpaceOnly(_, _)
split_OnSpaceOnly(text, word) ==
  IF text = <<>> THEN (IF word = <<>> THEN <<>> ELSE <<word>>)
  ELSE IF Head(text) = " "
    THEN (IF word = <<>> THEN <<>> ELSE <<word>>) \o split_OnSpaceOnly(Tail(text), <<>>)
  ELSE split_OnSpaceOnly(Tail(text), Append(word, Head(text)))

\* ' '.join(text.split()): the maximal runs of non-whitespace characters,
\* in order, with one space between two of them
RECURSIVE split(_, _)
split(text, word) ==
  IF text = <<>> THEN (IF word = <<>> THEN <<>> ELSE <<word>>)
  ELSE IF IsSpace(Head(text))
    THEN (IF word = <<>> THEN <<>> ELSE <<word>>) \o split(Tail(text), <<>>)
  ELSE split(Tail(text), Append(word, Head(text)))

RECURSIVE join(_, _)
join(sep, pieces) ==
  IF pieces = <<>> THEN <<>>
  ELSE IF Len(pieces) = 1 THEN Head(pieces)
  ELSE Head(pieces) \o sep \o join(sep, Tail(pieces))

\* text.replace('  ', ' ')
RECURSIVE ReplaceDoubleSpace(_)
ReplaceDoubleSpace(text) ==
  IF text = <<>> THEN <<>>
  ELSE IF Len(text) >= 2 /\ text[1] = " " /\ text[2] = " "
    THEN <<" ">> \o ReplaceDoubleSpace(Tail(Tail(text)))
  ELSE <<Head(text)>> \o ReplaceDoubleSpace(Tail(text))

\* text.strip()
RECURSIVE StripEnds(_)
StripEnds(text) ==
  IF text = <<>> THEN <<>>
  ELSE IF IsSpace(Head(text)) THEN StripEnds(Tail(text))
  ELSE IF IsSpace(text[Len(text)]) THEN StripEnds(SubSeq(text, 1, Len(text) - 1))
  ELSE text

\* faulty variant: text.replace('  ', ' ').strip(), one pass over the
\* doubled spaces
strip_spaces_OnePass(text) == StripEnds(ReplaceDoubleSpace(text))

strip_spaces(text) == join(<<" ">>, split(text, <<>>))

\* the keyword defaults of ireplace(data, old, new, count=0, not_in_word=False)
ireplace_defaults == [count |-> 0, not_in_word |-> FALSE]

\* faulty variant: remove_words enforces the boundary by default
remove_words_defaults_True == [not_in_word |-> TRUE]

\* the keyword default of remove_words(text, words, not_in_word=False)
remove_words_defaults == [not_in_word |-> FALSE]

\* the arguments of a call, a vocabulary list passed as words looked up:
\* words_ref names the class attribute whose list object is passed
Deref(args, lists) ==
  IF "words_ref" \in DOMAIN args
    THEN [k \in (DOMAIN args \ {"words_ref"}) \cup {"words"} |->
            IF k = "words" THEN lists[args.words_ref] ELSE args[k]]
    ELSE args

\* the parameters of a call: the arguments passed, the defaults for the rest
Bind(args, defaults) ==
  [k \in DOMAIN args \cup DOMAIN defaults |->
     IF k \in DOMAIN args THEN args[k] ELSE defaults[k]]

\* faulty variant: the boundary is enforced whatever the flag
ireplace_AlwaysNotInWord(data, old, new, count, not_in_word) ==
  re_sub(re_compile(re_not_in_word(re_escape(old))), new, data, count)

ireplace(data, old, new, count, not_in_word) ==
  LET escaped == re_escape(old)
      regexp == IF not_in_word THEN re_not_in_word(escaped) ELSE escaped
      pattern == re_compile(regexp)
  IN re_sub(pattern, new, data, count)

\* faulty variant: the words are taken last to first
RECURSIVE remove_loop_Reversed(_, _, _, _)
remove_loop_Reversed(text, words, not_in_word, k) ==
  IF k = 0 THEN [text |-> text, hits |-> <<>>]
  ELSE LET before == remove_loop_Reversed(text, words, not_in_word, k - 1)
           r == ireplace(before.text, words[Len(words) - k + 1], <<>>,
                         ireplace_defaults.count, not_in_word)
       IN [text |-> r.value, hits |-> Append(before.hits, r.hits)]

\* faulty variant: the loop is left after the first word
remove_loop_FirstWordOnly(text, words, not_in_word, k) ==
  IF k = 0 THEN [text |-> text, hits |-> <<>>]
  ELSE LET r == ireplace(text, words[1], <<>>, ireplace_defaults.count, not_in_word)
       IN [text |-> r.value, hits |-> <<r.hits>>]

\* faulty variant: a word is replaced by a space
RECURSIVE remove_loop_SpaceForWord(_, _, _, _)
remove_loop_SpaceForWord(text, words, not_in_word, k) ==
  IF k = 0 THEN [text |-> text, hits |-> <<>>]
  ELSE LET before == remove_loop_SpaceForWord(text, words, not_in_word, k - 1)
           r == ireplace(before.text, words[k], <<" ">>,
                         ireplace_defaults.count, not_in_word)
       IN [text |-> r.value, hits |-> Append(before.hits, r.hits)]

\* the loop of remove_words over words[1..k]: the text after k words and
\* the matches each word had
RECURSIVE remove_loop(_, _, _, _)
remove_loop(text, words, not_in_word, k) ==
  IF k = 0 THEN [text |-> text, hits |-> <<>>]
  ELSE LET before == remove_loop(text, words, not_in_word, k - 1)
           r == ireplace(before.text, words[k], <<>>,
                         ireplace_defaults.count, not_in_word)
       IN [hits |-> Append(before.hits, r.hits), text |-> r.value]

\* faulty variant: the final ' '.join(text.split()) is left out
remove_words_NoStrip(text, words, not_in_word) ==
  LET done == remove_loop(text, words, not_in_word, Len(words))
  IN [raised |-> FALSE, value |-> done.text, hits |-> done.hits, words |-> words]

\* faulty variant: the words are popped off the list they are in
remove_words_ConsumesWords(text, words, not_in_word) ==
  LET done == remove_loop(text, words, not_in_word, Len(words))
  IN [raised |-> FALSE,
      value |-> join(<<" ">>, split(done.text, <<>>)),
      hits |-> done.hits,
      words |-> <<>>]

\* the value returned, the matches of each word, and the list object words
\* as the call leaves it

remove_words(text, words, not_in_word) ==
  LET done == remove_loop(text, words, not_in_word, Len(words))
  IN [raised |-> FALSE,
      value |-> join(<<" ">>, split(done.text, <<>>)),
      hits |-> done.hits,
      words |-> words]

----------------------------------------------------------------------------
(* The calls made *)

MaxLen == 3

MaxTerm == 2

MaxCount == 2

MaxRepl == 2

MaxWords == 2

Texts(chars, n) == UNION {[1..k -> chars] : k \in 0..n}

Str_banana == <<"b","a","n","a","n","a">>

Str_close == <<"c","l","o","s","e">>

Str_se == <<"s","e">>

Str_season == <<"s","e","a","s","o","n">>

Str_Bleach_Season_02 ==
  <<"B","l","e","a","c","h"," ","S","e","a","s","o","n"," ","0","2">>

Str_Bleach_02 == <<"B","l","e","a","c","h"," ","0","2">>

Str_x_264 == <<"x",".","2","6","4">>

Str_Movie_x264_Title ==
  <<"M","o","v","i","e",".","x","2","6","4",".","T","i","t","l","e">>

Str_Movie_x_264_Title ==
  <<"M","o","v","i","e",".","x",".","2","6","4",".","T","i","t","l","e">>

Str_Movie__Title == <<"M","o","v","i","e",".",".","T","i","t","l","e">>

Str_Movie_Title == <<"M","o","v","i","e"," ","T","i","t","l","e">>

Str__A___B__ == <<" "," ","A"," "," "," ","B"," "," ">>

Str_PROPER == <<"P","R","O","P","E","R">>

Str_proper == <<"p","r","o","p","e","r">>

Str_Show_Name_PROPER_720p ==
  <<"S","h","o","w",".","N","a","m","e",".","P","R","O","P","E","R",".","7","2","0","p">>

IreplaceCall(d, t, r, c, f) ==
  [fn |-> "ireplace",
   args |-> [data |-> d, old |-> t, new |-> r, count |-> c, not_in_word |-> f]]

IreplaceShortCall(d, t, r) ==
  [fn |-> "ireplace", args |-> [data |-> d, old |-> t, new |-> r]]

RemoveWordsCall(d, w, f) ==
  [fn |-> "remove_words", args |-> [text |-> d, words |-> w, not_in_word |-> f]]

RemoveWordsShortCall(d, w) ==
  [fn |-> "remove_words", args |-> [text |-> d, words |-> w]]

\* the texts, terms and replacements of the ireplace calls
IreplaceTexts == Texts({"a", "A", "1", "_", "."}, MaxLen)

IreplaceTerms == Texts({"a", "."}, MaxTerm)

PlainReplacements == {<<>>, <<"o">>}

Templates ==
  Texts({"o", "\\", "."}, MaxRepl)
    \cup {<<"\\", "g", "<", "0", ">">>, <<"\\", "n">>, <<"\\", "1">>}

\* the texts and word lists of the remove_words calls
RemoveTexts == Texts({"a", "b", " ", "\t"}, MaxLen)

WordPool == {<<"a">>, <<"b">>, <<"a", "a">>, <<"a", "b">>, <<"b", " ">>}

WordLists == Texts(WordPool, MaxWords)

ExampleCalls ==
  { IreplaceCall(Str_banana, <<"a">>, <<"o">>, 1, FALSE),
    IreplaceCall(Str_Bleach_Season_02, Str_se, <<>>, 0, TRUE),
    IreplaceCall(Str_Bleach_Season_02, Str_se, <<>>, 0, FALSE),
    IreplaceCall(Str_close, Str_se, <<>>, 0, TRUE),
    IreplaceCall(Str_Movie_x264_Title, Str_x_264, <<>>, 0, TRUE),
    IreplaceCall(Str_Movie_x_264_Title, Str_x_264, <<>>, 0, TRUE),
    IreplaceCall(Str_Show_Name_PROPER_720p, Str_PROPER, <<>>, 0, TRUE),
    IreplaceCall(Str_Show_Name_PROPER_720p, Str_proper, <<>>, 0, TRUE),
    RemoveWordsCall(Str_Bleach_Season_02, <<Str_season>>, TRUE),
    RemoveWordsCall(Str_Bleach_Season_02, <<Str_se>>, TRUE),
    RemoveWordsShortCall(Str_Bleach_Season_02, <<Str_se>>),
    RemoveWordsCall(Str_Show_Name_PROPER_720p, <<Str_PROPER>>, TRUE),
    RemoveWordsCall(Str_Show_Name_PROPER_720p, <<Str_proper>>, TRUE),
    RemoveWordsCall(Str_Movie_x_264_Title, <<Str_x_264>>, TRUE),
    RemoveWordsCall(Str__A___B__, <<>>, TRUE),
    RemoveWordsCall(Str__A___B__, <<>>, FALSE),
    RemoveWordsShortCall(Str__A___B__, <<>>) }

\* the calls a behaviour starts from
IsCall(c) ==
  \/ \E d \in IreplaceTexts, t \in IreplaceTerms, r \in PlainReplacements,
        n \in 0..MaxCount, f \in BOOLEAN : c = IreplaceCall(d, t, r, n, f)
  \/ \E d \in Texts({"a", "b"}, MaxLen), r \in Templates :
        c = IreplaceCall(d, <<"a">>, r, 0, FALSE)
  \/ \E d \in IreplaceTexts, t \in IreplaceTerms : c = IreplaceShortCall(d, t, <<>>)
  \/ \E d \in RemoveTexts, w \in WordLists, f \in BOOLEAN : c = RemoveWordsCall(d, w, f)
  \/ \E d \in RemoveTexts, w \in WordLists : c = RemoveWordsShortCall(d, w)
  \/ c \in ExampleCalls

----------------------------------------------------------------------------
(* The state machine: one call, from its arguments to its return *)

\* the parts of the state a specification does not use
NoThreads == threads = <<>>

NoLogOnce == manager = FALSE /\ table = <<>> /\ logged = <<>> /\ results = <<>>

NoSession == session = <<>>

NoSonarr == sonarr = <<>>

NoFlexgetLog == flog = <<>>

NoFileOps == fops = <<>>

NoMyAnimeList == mal = <<>>

NoPlugins == NoSession /\ NoSonarr /\ NoFlexgetLog /\ NoFileOps /\ NoMyAnimeList

NoCall ==
  /\ call = [fn |-> "none", args |-> <<>>]
  /\ pc = "idle"
  /\ out = <<>>
  /\ raised = FALSE
  /\ hits = <<>>

\* a call about to run
Called(c) ==
  /\ call = c
  /\ pc = "call"
  /\ out = <<>>
  /\ raised = FALSE
  /\ hits = <<>>

Init ==
  /\ IsCall(call)
  /\ pc = "call"
  /\ out = <<>>
  /\ raised = FALSE
  /\ hits = <<>>
  /\ vocab = TitleParserLists
  /\ NoThreads
  /\ NoLogOnce
  /\ NoPlugins

Return(r) ==
  /\ out' = r.value
  /\ raised' = r.raised
  /\ hits' = r.hits
  /\ pc' = "return"
  /\ UNCHANGED <<call, threads, logVars, plugVars>>

\* the keyword defaults of the method fn
Defaults(fn) ==
  CASE fn = "ireplace" -> ireplace_defaults
    [] fn = "remove_words" -> remove_words_defaults
    [] OTHER -> <<>>

Ireplace ==
  /\ pc = "call"
  /\ call.fn = "ireplace"
  /\ LET p == Bind(call.args, ireplace_defaults)
     IN Return(ireplace(p.data, p.old, p.new, p.count, p.not_in_word))
  /\ UNCHANGED vocab

\* remove_words; a vocabulary list passed as words is the list object of the
\* class attribute, which has afterwards what the call left in it
RemoveWords ==
  /\ pc = "call"
  /\ call.fn = "remove_words"
  /\ LET p == Bind(Deref(call.args, vocab), remove_words_defaults) IN
       \E r \in {remove_words(p.text, p.words, p.not_in_word)} :
         /\ Return(r)
         /\ vocab' = IF "words_ref" \in DOMAIN call.args
                       THEN [vocab EXCEPT ![call.args.words_ref] = r.words]
                       ELSE vocab

StripSpaces ==
  /\ pc = "call"
  /\ call.fn = "strip_spaces"
  /\ Return([raised |-> FALSE, value |-> strip_spaces(call.args.text), hits |-> <<>>])
  /\ UNCHANGED vocab

ReNotInWord ==
  /\ pc = "call"
  /\ call.fn = "re_not_in_word"
  /\ Return([raised |-> FALSE, value |-> re_not_in_word(call.args.regexp), hits |-> <<>>])
  /\ UNCHANGED vocab

Next == Ireplace \/ RemoveWords

Spec == Init /\ [][Next]_vars

\* strip_spaces alone, on texts with whitespace in them
MaxStrip == 5

StripCall(t) == [fn |-> "strip_spaces", args |-> [text |-> t]]

Str_The_Matrix_1999_raw ==
  <<" "," ","T","h","e"," "," "," ","M","a","t","r","i","x","\t","\n",
    "1","9","9","9"," "," ">>

Str_The_Matrix_1999 ==
  <<"T","h","e"," ","M","a","t","r","i","x"," ","1","9","9","9">>

StripTexts == Texts({"a", "b", " ", "\t", "\n"}, MaxStrip)

InitStrip ==
  /\ \/ \E t \in StripTexts : Called(StripCall(t))
     \/ Called(StripCall(Str_The_Matrix_1999_raw))
  /\ vocab = TitleParserLists
  /\ NoThreads
  /\ NoLogOnce
  /\ NoPlugins

NextStrip == StripSpaces

SpecStrip == InitStrip /\ [][NextStrip]_vars

\* any sequence of calls of the four methods, the vocabulary lists of the
\* class passed as words among them
RemoveWordsRefCall(d, name, f) ==
  [fn |-> "remove_words", args |-> [text |-> d, words_ref |-> name, not_in_word |-> f]]

ReNotInWordCall(e) == [fn |-> "re_not_in_word", args |-> [regexp |-> e]]

Str_Show_PROPER_XviD_AC3 ==
  <<"S","h","o","w"," ","P","R","O","P","E","R"," ","X","v","i","D"," ","A","C","3">>

Str_Movie_uncut_x_264_imax ==
  <<"M","o","v","i","e"," ","u","n","c","u","t"," ","x",".","2","6","4"," ",
    "i","m","a","x">>

Str_Bonus__Omake_DTS ==
  <<"B","o","n","u","s"," "," ","O","m","a","k","e"," ","D","T","S">>

Str_Film_unrated_se_3d ==
  <<"F","i","l","m"," ","u","n","r","a","t","e","d"," ","s","e"," ","3","d">>

VocabTexts ==
  { Str_Show_PROPER_XviD_AC3, Str_Movie_uncut_x_264_imax,
    Str_Bonus__Omake_DTS, Str_Film_unrated_se_3d }

ListNames == DOMAIN TitleParserLists

IsVocabCall(c) ==
  \/ \E d \in VocabTexts, name \in ListNames, f \in BOOLEAN :
        c = RemoveWordsRefCall(d, name, f)
  \/ \E d \in VocabTexts, name \in ListNames, f \in BOOLEAN :
        c = RemoveWordsCall(d, <<TitleParserLists[name][1]>>, f)
  \/ \E d \in VocabTexts, name \in ListNames, f \in BOOLEAN :
        c = IreplaceCall(d, TitleParserLists[name][1], <<>>, 0, f)
  \/ \E d \in VocabTexts : c = StripCall(d)
  \/ \E name \in ListNames :
        c = ReNotInWordCall(re_escape(TitleParserLists[name][1]))

InitVocab ==
  /\ IsVocabCall(call)
  /\ pc = "call"
  /\ out = <<>>
  /\ raised = FALSE
  /\ hits = <<>>
  /\ vocab = TitleParserLists
  /\ NoThreads
  /\ NoLogOnce
  /\ NoPlugins

\* the caller goes on to its next call
NewCall ==
  /\ pc = "return"
  /\ IsVocabCall(call')
  /\ pc' = "call"
  /\ out' = <<>>
  /\ raised' = FALSE
  /\ hits' = <<>>
  /\ UNCHANGED <<vocab, threads, logVars, plugVars>>

NextVocab == NewCall \/ Ireplace \/ RemoveWords \/ StripSpaces \/ ReNotInWord

SpecVocab == InitVocab /\ [][NextVocab]_vars

\* remove_words with a list of the class and not_in_word=True, on texts put
\* together from tokens of the lists, parts of tokens and separators
MaxPieces == 3

Pieces ==
  { Str_se, Str_x_264, <<"D","D","5",".","1">>, <<"r","e","a","l">>,
    <<"x">>, <<"2","6","4">>, <<".">>, <<" ">>, <<"_">> }

RECURSIVE Concat(_)
Concat(pieces) ==
  IF pieces = <<>> THEN <<>> ELSE Head(pieces) \o Concat(Tail(pieces))

Str_rerealal == <<"r","e","r","e","a","l","a","l">>

InitPieces ==
  /\ \/ \E n \in 0..MaxPieces : \E ps \in [1..n -> Pieces] : \E name \in ListNames :
          Called(RemoveWordsRefCall(Concat(ps), name, TRUE))
     \/ Called(RemoveWordsRefCall(Str_rerealal, "propers", FALSE))
     \/ Called(RemoveWordsRefCall(Str_rerealal, "propers", TRUE))
  /\ vocab = TitleParserLists
  /\ NoThreads
  /\ NoLogOnce
  /\ NoPlugins

NextPieces == RemoveWords

SpecPieces == InitPieces /\ [][NextPieces]_vars

----------------------------------------------------------------------------
(* Calls made from several threads: every thread has its own frame of locals
   and runs its call statement by statement, in any interleaving with the
   others; the vocabulary lists of the class are the only objects the
   threads have in common *)

NThreads == 2

ThreadCalls ==
  { RemoveWordsRefCall(<<"I","M","A","X"," "," ","a">>, "remove", TRUE),
    RemoveWordsCall(<<"a"," ","b","a"," ","b">>, <<<<"a">>, <<"b">>>>, FALSE),
    IreplaceCall(Str_banana, <<"a">>, <<"o">>, 1, FALSE),
    IreplaceCall(Str_close, Str_se, <<>>, 0, TRUE),
    IreplaceCall(<<"a">>, <<"a">>, <<"\\", "1">>, 0, FALSE),
    StripCall(Str__A___B__),
    ReNotInWordCall(Str_se) }

\* the frame of a call about to run
NewFrame(c) ==
  [call |-> c, pc |-> "call", text |-> <<>>, k |-> 0, inner |-> <<>>,
   regexp |-> <<>>, out |-> <<>>, raised |-> FALSE]

\* faulty variant: text is one variable for all threads, the one of thread 1
LocalText_Global(ts, t) == ts[1].text

\* the local variable text of thread t
LocalText(ts, t) == ts[t].text

InitThreads ==
  /\ NoCall
  /\ vocab = TitleParserLists
  /\ NoLogOnce
  /\ NoPlugins
  /\ threads \in [1..NThreads -> {NewFrame(c) : c \in ThreadCalls}]

\* thread t goes on with the frame f
Run(t, f) ==
  /\ threads' = [threads EXCEPT ![t] = f]
  /\ UNCHANGED <<callVars, vocab, logVars, plugVars>>

\* remove_words is entered: text is bound to the argument
ThreadRemoveWords ==
  \E t \in DOMAIN threads :
    LET f == threads[t] IN
      /\ f.pc = "call"
      /\ f.call.fn = "remove_words"
      /\ Run(t, [f EXCEPT !.pc = "for", !.text = f.call.args.text, !.k = 0])

\* for word in words: the next word of the list as it is now goes to
\* ireplace, together with text
ThreadForWord ==
  \E t \in DOMAIN threads :
    LET f == threads[t]
        p == Bind(Deref(f.call.args, vocab), remove_words_defaults)
    IN /\ f.pc = "for"
       /\ f.k < Len(p.words)
       /\ Run(t, [f EXCEPT !.pc = "escape",
                           !.k = f.k + 1,
                           !.inner = [data |-> LocalText(threads, t),
                                      old |-> p.words[f.k + 1],
                                      new |-> <<>>,
                                      count |-> ireplace_defaults.count,
                                      not_in_word |-> p.not_in_word]])

\* the list is exhausted: return ' '.join(text.split())
ThreadForEnd ==
  \E t \in DOMAIN threads :
    LET f == threads[t]
        p == Bind(Deref(f.call.args, vocab), remove_words_defaults)
    IN /\ f.pc = "for"
       /\ f.k >= Len(p.words)
       /\ Run(t, [f EXCEPT !.pc = "return",
                           !.out = join(<<" ">>, split(LocalText(threads, t), <<>>))])

\* ireplace is entered by the caller of the thread
ThreadIreplace ==
  \E t \in DOMAIN threads :
    LET f == threads[t] IN
      /\ f.pc = "call"
      /\ f.call.fn = "ireplace"
      /\ Run(t, [f EXCEPT !.pc = "escape",
                          !.inner = Bind(f.call.args, ireplace_defaults)])

\* regexp = re.escape(old)
ThreadEscape ==
  \E t \in DOMAIN threads :
    LET f == threads[t] IN
      /\ f.pc = "escape"
      /\ Run(t, [f EXCEPT !.pc = IF f.inner.not_in_word THEN "wrap" ELSE "sub",
                          !.regexp = re_escape(f.inner.old)])

\* regexp = TitleParser.re_not_in_word(regexp)
ThreadWrap ==
  \E t \in DOMAIN threads :
    LET f == threads[t] IN
      /\ f.pc = "wrap"
      /\ Run(t, [f EXCEPT !.pc = "sub", !.regexp = re_not_in_word(f.regexp)])

\* return re.sub(regexp, new, data, count, flags), to remove_words or to the
\* caller of the thread
ThreadSub ==
  \E t \in DOMAIN threads :
    LET f == threads[t] IN
      /\ f.pc = "sub"
      /\ \E r \in {re_sub(re_compile(f.regexp), f.inner.new, f.inner.data,
                          f.inner.count)} :
           IF f.call.fn = "remove_words"
             THEN Run(t, [f EXCEPT !.pc = "for", !.text = r.value])
             ELSE Run(t, [f EXCEPT !.pc = "return", !.out = r.value,
                                   !.raised = r.raised])

ThreadStripSpaces ==
  \E t \in DOMAIN threads :
    LET f == threads[t] IN
      /\ f.pc = "call"
      /\ f.call.fn = "strip_spaces"
      /\ Run(t, [f EXCEPT !.pc = "return", !.out = strip_spaces(f.call.args.text)])

ThreadReNotInWord ==
  \E t \in DOMAIN threads :
    LET f == threads[t] IN
      /\ f.pc = "call"
      /\ f.call.fn = "re_not_in_word"
      /\ Run(t, [f EXCEPT !.pc = "return",
                          !.out = re_not_in_word(f.call.args.regexp)])

NextThreads ==
  \/ ThreadRemoveWords
  \/ ThreadForWord
  \/ ThreadForEnd
  \/ ThreadIreplace
  \/ ThreadEscape
  \/ ThreadWrap
  \/ ThreadSub
  \/ ThreadStripSpaces
  \/ ThreadReNotInWord

SpecThreads == InitThreads /\ [][NextThreads]_vars

----------------------------------------------------------------------------
(* log_once: a message is a sequence of code points, the log_once table a
   sequence of rows in the order they were added *)

MaxCalls == 3

Msg_a == <<97>>

Msg_question == <<63>>

Msg_euro == <<8364>>

Msg_e_acute == <<233>>

Msg_a_euro == <<97, 8364>>

Msg_a_question == <<97, 63>>

Messages == {Msg_a, Msg_question, Msg_euro, Msg_e_acute, Msg_a_euro, Msg_a_question}

\* 'DB not initialized. log_once will not work properly.'
Msg_DB_not_initialized ==
  <<68, 66, 32, 110, 111, 116, 32, 105, 110, 105, 116, 105, 97, 108, 105, 122,
    101, 100, 46, 32, 108, 111, 103, 95, 111, 110, 99, 101, 32, 119, 105, 108,
    108, 32, 110, 111, 116, 32, 119, 111, 114, 107, 32, 112, 114, 111, 112,
    101, 114, 108, 121, 46>>

\* message.encode('latin1', 'replace'): a code point latin-1 does not have
\* becomes '?'
encode_latin1_replace(message) ==
  [i \in DOMAIN message |-> IF message[i] < 256 THEN message[i] ELSE 63]

\* hashlib.md5(bytes).hexdigest(), for the byte strings the messages encode to
md5_hexdigest(bytes) ==
  CASE bytes = <<97>> -> "0cc175b9c0f1b6a831c399e269772661"
    [] bytes = <<63>> -> "d1457b72c3fb323a2671125aef3eab5d"
    [] bytes = <<233>> -> "3406877694691ddd1dfb0aca54681407"
    [] bytes = <<97, 63>> -> "771d1f0f5e79495265522d3392ffbadb"

log_once_defaults == [once_level |-> "INFO", suppressed_level |-> "VERBOSE"]

LogOnceCall(m) == [fn |-> "log_once", args |-> [message |-> m]]

LogOnceLevelsCall(m, once, suppressed) ==
  [fn |-> "log_once",
   args |-> [message |-> m, once_level |-> once, suppressed_level |-> suppressed]]

LogOnceCalls ==
  {LogOnceCall(m) : m \in Messages}
    \cup {LogOnceLevelsCall(m, "WARNING", "DEBUG") : m \in Messages}

\* LogMessage(md5sum), added to a table that has the rows rows
LogMessage(rows, md5sum) == [id |-> Len(rows) + 1, md5sum |-> md5sum]

\* session.query(LogMessage).filter_by(md5sum=md5sum).first() is a row
query_first(rows, md5sum) == \E k \in DOMAIN rows : rows[k].md5sum = md5sum

Log(level, message) == [level |-> level, message |-> message]

\* log_once(message, once_level=..., suppressed_level=...) with the manager
\* active or not and the table holding rows: the value returned, the records
\* logged and the table afterwards
log_once(args, active, rows) ==
  LET p == Bind(args, log_once_defaults)
      md5sum == md5_hexdigest(encode_latin1_replace(p.message))
  IN IF ~active
       THEN [value |-> "None",
             logs |-> <<Log("WARNING", Msg_DB_not_initialized),
                        Log(p.once_level, p.message)>>,
             table |-> rows]
     ELSE IF query_first(rows, md5sum)
       THEN [value |-> "False",
             logs |-> <<Log(p.suppressed_level, p.message)>>,
             table |-> rows]
     ELSE [value |-> "True",
           logs |-> <<Log(p.once_level, p.message)>>,
           table |-> Append(rows, LogMessage(rows, md5sum))]

\* a new database, and a manager that is active or not
InitLogOnce ==
  /\ NoCall
  /\ vocab = TitleParserLists
  /\ NoThreads
  /\ NoPlugins
  /\ manager \in BOOLEAN
  /\ table = <<>>
  /\ logged = <<>>
  /\ results = <<>>

\* one call of log_once, from its arguments to its return
LogOnce ==
  /\ Len(results) < MaxCalls
  /\ \E c \in LogOnceCalls :
       \E r \in {log_once(c.args, manager, table)} :
         /\ table' = r.table
         /\ logged' = logged \o r.logs
         /\ results' = Append(results, [call |-> c, value |-> r.value,
                                        logs |-> r.logs, rows |-> r.table])
  /\ UNCHANGED <<callVars, vocab, threads, manager, plugVars>>

NextLogOnce == LogOnce

SpecLogOnce == InitLogOnce /\ [][NextLogOnce]_vars

----------------------------------------------------------------------------
(* Properties of ireplace and remove_words *)

\* the parameters the call in progress binds
Params == Bind(Deref(call.args, vocab), Defaults(call.fn))

Returned(fn) == pc = "return" /\ call.fn = fn

\* the matches of the returned call, each with the text it was found in:
\* <<text, term, offset>>; remove_words matches word k in the text the
\* words before it left
Matched ==
  IF call.fn = "ireplace"
    THEN {<<Params.data, Params.old, hits[j]>> : j \in DOMAIN hits}
    ELSE UNION {
      {<<remove_loop(Params.text, Params.words, Params.not_in_word, k - 1).text,
         Params.words[k], hits[k][j]>> : j \in DOMAIN hits[k]} : k \in DOMAIN hits}

\* no character of the class InWord is next to text[i+1 .. i+n]
Free(text, i, n, InWord(_)) ==
  /\ i = 0 \/ ~InWord(text[i])
  /\ i + n = Len(text) \/ ~InWord(text[i + n + 1])

\* C1 as stated: with not_in_word=True an occurrence is replaced only if the
\* character before it is the start of the string or no letter, digit or
\* underscore, and the character after it is the end of the string or no
\* letter, digit or underscore.
C1_UnderscoreIsWordChar ==
  (pc = "return" /\ Params.not_in_word) =>
    \A h \in Matched : Free(h[1], h[3], Len(h[2]), IsWordChar)

\* C1 amended: with not_in_word=True an occurrence is replaced only if the
\* character before it is the start of the string or neither a letter nor a
\* digit, and the character after it is the end of the string or neither a
\* letter nor a digit; an underscore next to the occurrence does not prevent
\* the replacement.
C1_NotInWord ==
  (pc = "return" /\ Params.not_in_word) =>
    \A h \in Matched : Free(h[1], h[3], Len(h[2]), IsAlnum)

\* a term replaced between two underscores
C1_Witness ==
  /\ Returned("ireplace")
  /\ Params.not_in_word
  /\ Params.data = <<"_", "a", "_">>
  /\ Params.old = <<"a">>
  /\ hits = <<1>>
  /\ out = <<"_">> \o Params.new \o <<"_">>

\* the term occurs in text at offset i, letter case apart
OccursAt(text, term, i) ==
  /\ i + Len(term) <= Len(text)
  /\ \A k \in 1..Len(term) : tolower(text[i + k]) = tolower(term[k])

\* C2: the search term is a literal: whatever characters it has, a replaced
\* occurrence is the term itself (letter case apart), for both values of
\* not_in_word; removing 'x.264' leaves 'Movie.x264.Title' unchanged and
\* turns 'Movie.x.264.Title' into 'Movie..Title'.
C2_LiteralTerm ==
  /\ pc = "return" => \A h \in Matched : OccursAt(h[1], h[2], h[3])
  /\ (Returned("ireplace") /\ Params.old = Str_x_264 /\ Params.not_in_word) =>
       /\ Params.data = Str_Movie_x264_Title => out = Str_Movie_x264_Title
       /\ Params.data = Str_Movie_x_264_Title => out = Str_Movie__Title

\* 'x.264' removed from 'Movie.x.264.Title'
C2_Witness ==
  /\ Returned("ireplace")
  /\ call = IreplaceCall(Str_Movie_x_264_Title, Str_x_264, <<>>, 0, TRUE)
  /\ hits = <<6>>
  /\ out = Str_Movie__Title

\* C3: with not_in_word=True 'se' is not removed from 'Bleach Season 02' nor
\* from 'close', and remove_words('Bleach Season 02', ['season'], True) is
\* 'Bleach 02'; with not_in_word=False and no count every occurrence of the
\* term, letter case apart, is replaced or overlaps a replaced one, also
\* inside a larger word.
C3_BoundaryOrSubstring ==
  /\ (Returned("ireplace") /\ Params.old = Str_se /\ Params.not_in_word
        /\ Params.data \in {Str_Bleach_Season_02, Str_close}) =>
       (hits = <<>> /\ out = Params.data)
  /\ (Returned("remove_words") /\ Params.text = Str_Bleach_Season_02
        /\ Params.not_in_word) =>
       /\ Params.words = <<Str_season>> => out = Str_Bleach_02
       /\ Params.words = <<Str_se>> => out = Str_Bleach_Season_02
  /\ (Returned("ireplace") /\ ~raised /\ ~Params.not_in_word /\ Params.count = 0) =>
       \A i \in 0..Len(Params.data) :
         OccursAt(Params.data, Params.old, i) =>
           \E j \in DOMAIN hits :
             \/ hits[j] = i
             \/ hits[j] < i + Len(Params.old) /\ i < hits[j] + Len(Params.old)

\* 'se' replaced inside 'Season' when not_in_word is False
C3_Witness ==
  /\ Returned("ireplace")
  /\ call = IreplaceCall(Str_Bleach_Season_02, Str_se, <<>>, 0, FALSE)
  /\ hits = <<7>>
  /\ IsAlnum(Params.data[10])

\* ireplace(., word, '', not_in_word=flag) folded over the words, first
\* word first
RECURSIVE FoldIreplace(_, _, _)
FoldIreplace(text, words, flag) ==
  IF words = <<>> THEN text
  ELSE FoldIreplace(ireplace(text, Head(words), <<>>, 0, flag).value, Tail(words), flag)

\* C4: remove_words(text, words, flag) is the fold of
\* ireplace(., word, '', not_in_word=flag) over the words in list order,
\* followed by the whitespace canonicalization of the final string.
C4_FoldThenStrip ==
  Returned("remove_words") =>
    out = strip_spaces(FoldIreplace(Params.text, Params.words, Params.not_in_word))

\* two overlapping tokens, the result depends on their order: 'a' then 'ab'
\* leaves 'b' of 'ab', 'ab' then 'a' leaves nothing
C4_Witness ==
  /\ Returned("remove_words")
  /\ Params.text = <<"a", "b">>
  /\ Params.words = <<<<"a">>, <<"a", "b">>>>
  /\ out = <<"b">>
  /\ remove_words(Params.text, <<<<"a", "b">>, <<"a">>>>, Params.not_in_word).value = <<>>

\* the offsets at which the token matches in text
Occurrences(text, token, flag) ==
  LET escaped == re_escape(token)
      pattern == re_compile(IF flag THEN re_not_in_word(escaped) ELSE escaped)
  IN {i \in 0..Len(text) : MatchAt(pattern, text, i)}

\* no character of text is in an occurrence of a and in an occurrence of b
NoOverlap(text, a, b, flag) ==
  \A i \in Occurrences(text, a, flag), j \in Occurrences(text, b, flag) :
    i + Len(a) <= j \/ j + Len(b) <= i

\* removing a from text leaves b matching the characters it matched in text:
\* the matches of b after the removal are its matches before, each moved left
\* by the characters removed in front of it
KeepsMatches(text, a, b, flag) ==
  LET ra == ireplace(text, a, <<>>, 0, flag)
      hb == ireplace(text, b, <<>>, 0, flag).hits
      moved == [j \in DOMAIN hb |->
                  hb[j] - Len(a) * Cardinality({k \in DOMAIN ra.hits : ra.hits[k] < hb[j]})]
  IN ireplace(ra.value, b, <<>>, 0, flag).hits = moved

Swapped(words) == <<words[2], words[1]>>

\* C5 as stated: if two tokens do not overlap in the input, the order of the
\* two in the word list does not change the output of remove_words.
C5_OrderIndependent ==
  (Returned("remove_words") /\ Len(Params.words) = 2
     /\ NoOverlap(Params.text, Params.words[1], Params.words[2], Params.not_in_word)) =>
    out = remove_words(Params.text, Swapped(Params.words), Params.not_in_word).value

\* C5 amended: if two tokens do not overlap in the input and removing either
\* one leaves the other matching the same characters as in the input (the
\* removal neither creates nor destroys a match of the other), the order of
\* the two in the word list does not change the output of remove_words.
C5_OrderIndependentIfStable ==
  (Returned("remove_words") /\ Len(Params.words) = 2
     /\ NoOverlap(Params.text, Params.words[1], Params.words[2], Params.not_in_word)
     /\ KeepsMatches(Params.text, Params.words[1], Params.words[2], Params.not_in_word)
     /\ KeepsMatches(Params.text, Params.words[2], Params.words[1], Params.not_in_word)) =>
    out = remove_words(Params.text, Swapped(Params.words), Params.not_in_word).value

\* two different tokens, both matched and removed, neither disturbing the other
C5_Witness ==
  /\ Returned("remove_words")
  /\ Len(Params.words) = 2
  /\ Params.words[1] # Params.words[2]
  /\ hits[1] # <<>> /\ hits[2] # <<>>
  /\ NoOverlap(Params.text, Params.words[1], Params.words[2], Params.not_in_word)
  /\ KeepsMatches(Params.text, Params.words[1], Params.words[2], Params.not_in_word)
  /\ KeepsMatches(Params.text, Params.words[2], Params.words[1], Params.not_in_word)
  /\ out # strip_spaces(Params.text)

\* C6: the output of remove_words has no leading whitespace, no trailing
\* whitespace and no two adjacent whitespace characters: every whitespace
\* character of it is one space between two other characters.
C6_Canonical ==
  Returned("remove_words") =>
    \A i \in DOMAIN out :
      IsSpace(out[i]) =>
        /\ out[i] = " "
        /\ 1 < i /\ i < Len(out)
        /\ ~IsSpace(out[i - 1]) /\ ~IsSpace(out[i + 1])

\* a word removed from a text with a tab in it, and something is left
C6_Witness ==
  /\ Returned("remove_words")
  /\ "\t" \in Range(Params.text)
  /\ \E k \in DOMAIN hits : hits[k] # <<>>
  /\ out # <<>>

\* every match of the returned call has no letter or digit next to it
NoneInWord == \A h \in Matched : Free(h[1], h[3], Len(h[2]), IsAlnum)

\* C7 as stated: remove_words called without not_in_word enforces the
\* word-boundary constraint, it does not touch a token embedded in a larger
\* word; ireplace called without not_in_word does not enforce it.
C7_RemoveWordsDefaultEnforces ==
  (pc = "return" /\ "not_in_word" \notin DOMAIN call.args) =>
    IF call.fn = "remove_words"
      THEN NoneInWord /\ out = remove_words(Params.text, Params.words, TRUE).value
      ELSE out = ireplace(Params.data, Params.old, Params.new, 0, FALSE).value

\* C7 amended: the boundary flag has the same default for both operations:
\* remove_words called without not_in_word does not enforce the
\* word-boundary constraint (it also removes a token embedded in a larger
\* word), and neither does ireplace called without not_in_word.
C7_DefaultNotEnforced ==
  (pc = "return" /\ "not_in_word" \notin DOMAIN call.args) =>
    IF call.fn = "remove_words"
      THEN out = strip_spaces(FoldIreplace(Params.text, Params.words, FALSE))
      ELSE out = ireplace(Params.data, Params.old, Params.new, 0, FALSE).value

\* remove_words without not_in_word removes a token that has a letter next
\* to it
C7_Witness ==
  /\ Returned("remove_words")
  /\ "not_in_word" \notin DOMAIN call.args
  /\ ~NoneInWord
  /\ out # remove_words(Params.text, Params.words, TRUE).value

\* C8: with count=0 ireplace replaces the non-overlapping occurrences of the
\* term found scanning left to right, all of them; with count=n>0 it replaces
\* the leftmost n of these (all, if there are fewer) and leaves what follows
\* the last replaced one as it is: ireplace('banana', 'a', 'o', count=1) is
\* 'bonana'.
C8_Count ==
  (Returned("ireplace") /\ ~raised) =>
    LET data == Params.data
        n == Len(Params.old)
        Occ == Occurrences(data, Params.old, Params.not_in_word)
        \* the offset the scan is at after match j
        After(j) == IF j = 0 THEN 0
                    ELSE IF n = 0 THEN hits[j] + 1 ELSE hits[j] + n
        last == Len(hits)
    IN /\ \A j \in DOMAIN hits :
            /\ hits[j] \in Occ
            /\ After(j - 1) <= hits[j]
            /\ \A i \in Occ : ~(After(j - 1) <= i /\ i < hits[j])
       /\ Params.count > 0 => last <= Params.count
       /\ (Params.count = 0 \/ last < Params.count) =>
            \A i \in Occ : i < After(last)
       /\ last > 0 =>
            SubSeq(out, Len(out) - (Len(data) - (hits[last] + n)) + 1, Len(out))
              = SubSeq(data, hits[last] + n + 1, Len(data))
       /\ call = IreplaceCall(Str_banana, <<"a">>, <<"o">>, 1, FALSE) =>
            out = <<"b", "o", "n", "a", "n", "a">>

\* count occurrences were replaced and a later one was left in place
C8_Witness ==
  /\ Returned("ireplace")
  /\ Params.count > 0
  /\ Len(hits) = Params.count
  /\ \E i \in Occurrences(Params.data, Params.old, Params.not_in_word) :
       i >= hits[Len(hits)] + Len(Params.old) /\ Len(Params.old) > 0
  /\ out # Params.data

\* the upper case of a letter, any other character as it is
toupper(c) ==
  IF c \in Range(LowerCase)
    THEN UpperCase[CHOOSE i \in DOMAIN LowerCase : LowerCase[i] = c]
    ELSE c

\* the spellings of a term that differ from it in letter case only
RECURSIVE CaseVariants(_)
CaseVariants(term) ==
  IF term = <<>> THEN {<<>>}
  ELSE {<<c>> \o rest : c \in {tolower(Head(term)), toupper(Head(term))},
                        rest \in CaseVariants(Tail(term))}

MapCase(text, F(_)) == [i \in DOMAIN text |-> F(text[i])]

\* C9: matching is case-insensitive in both directions: a call with the term
\* (every word, for remove_words) in upper case, in lower case or in any
\* mixed case returns what the call returned, and the occurrences matched in
\* the text are the ones matched in the text put in upper or in lower case.
C9_CaseInsensitive ==
  /\ Returned("ireplace") =>
       /\ \A t \in CaseVariants(Params.old) :
            LET r == ireplace(Params.data, t, Params.new, Params.count, Params.not_in_word)
            IN r.raised = raised /\ r.value = out /\ r.hits = hits
       /\ \A F \in {"lower", "upper"} :
            LET text == IF F = "lower" THEN MapCase(Params.data, tolower)
                        ELSE MapCase(Params.data, toupper)
            IN ireplace(text, Params.old, Params.new, Params.count,
                        Params.not_in_word).hits = hits
  /\ Returned("remove_words") =>
       /\ remove_words(Params.text, [k \in DOMAIN Params.words |->
                         MapCase(Params.words[k], toupper)], Params.not_in_word).value = out
       /\ remove_words(Params.text, [k \in DOMAIN Params.words |->
                         MapCase(Params.words[k], tolower)], Params.not_in_word).value = out

\* 'proper' removes the 'PROPER' of 'Show.Name.PROPER.720p'
C9_Witness ==
  /\ Returned("ireplace")
  /\ call = IreplaceCall(Str_Show_Name_PROPER_720p, Str_proper, <<>>, 0, TRUE)
  /\ hits = <<10>>
  /\ out = ireplace(Str_Show_Name_PROPER_720p, Str_PROPER, <<>>, 0, TRUE).value
  /\ Len(out) = Len(Str_Show_Name_PROPER_720p) - 6

\* data with the n characters at each of the offsets replaced by new as it is
RECURSIVE Substituted(_, _, _, _, _)
Substituted(data, offsets, n, new, from) ==
  IF offsets = <<>> THEN SubSeq(data, from + 1, Len(data))
  ELSE SubSeq(data, from + 1, Head(offsets)) \o new
         \o Substituted(data, Tail(offsets), n, new, Head(offsets) + n)

\* C10: ireplace changes nothing outside the replaced occurrences: the output
\* is the input with each replaced occurrence substituted by exactly the
\* replacement string and every other character kept; when the term does not
\* occur the output equals the input.
C10_OnlyOccurrencesChange ==
  Returned("ireplace") =>
    /\ ~raised
    /\ out = Substituted(Params.data, hits, Len(Params.old), Params.new, 0)
    /\ Occurrences(Params.data, Params.old, Params.not_in_word) = {} => out = Params.data

\* C13: remove_words with an empty word list returns the
\* whitespace-canonicalized input, for either flag value and without the
\* flag: remove_words(text, []) = strip_spaces(text), '  A   B  ' gives 'A B'.
C13_EmptyWordList ==
  (Returned("remove_words") /\ Params.words = <<>>) =>
    /\ out = strip_spaces(Params.text)
    /\ Params.text = Str__A___B__ => out = <<"A", " ", "B">>

\* remove_words('  A   B  ', []) returned 'A B'
C13_Witness ==
  /\ Returned("remove_words")
  /\ Params.text = Str__A___B__
  /\ Params.words = <<>>
  /\ out = <<"A", " ", "B">>

\* C14: no operation raises, whatever the text, the term, the replacement,
\* the count and the flag; an empty text gives an empty output and an absent
\* match gives the input back.
C14_NeverRaises ==
  /\ pc = "return" => ~raised
  /\ Returned("ireplace") =>
       /\ Params.data = <<>> => out = <<>>
       /\ hits = <<>> => out = Params.data

\* C15 as stated: remove_words('Movie.x.264.Title', ['x.264'],
\* not_in_word=True) returns 'Movie Title'.
C15_MovieTitle ==
  (Returned("remove_words") /\ Params.text = Str_Movie_x_264_Title
     /\ Params.words = <<Str_x_264>> /\ Params.not_in_word) =>
    out = Str_Movie_Title

\* C15 amended: remove_words('Movie.x.264.Title', ['x.264'],
\* not_in_word=True) returns 'Movie..Title': the token is removed, the two
\* dots around it stay, and there is no whitespace to canonicalize.
C15_MovieDotDotTitle ==
  (Returned("remove_words") /\ Params.text = Str_Movie_x_264_Title
     /\ Params.words = <<Str_x_264>> /\ Params.not_in_word) =>
    out = Str_Movie__Title

\* 'x.264' was matched in 'Movie.x.264.Title' and removed
C15_Witness ==
  /\ Returned("remove_words")
  /\ call = RemoveWordsCall(Str_Movie_x_264_Title, <<Str_x_264>>, TRUE)
  /\ hits = <<<<6>>>>
  /\ Len(out) = Len(Str_Movie_x_264_Title) - Len(Str_x_264)

----------------------------------------------------------------------------
(* Properties of the vocabulary lists *)

\* C16: no call of strip_spaces, ireplace, remove_words or re_not_in_word
\* changes a vocabulary list, also when the list object itself is passed as
\* words: after any sequence of calls each list has the elements it had at
\* class definition, in the same order.
C16_ListsUnchanged ==
  /\ DOMAIN vocab = ListNames
  /\ \A name \in ListNames : vocab[name] = TitleParserLists[name]

\* remove_words has returned from a call with a list of the class as words,
\* and a word of that list was found
C16_Witness ==
  /\ Returned("remove_words")
  /\ "words_ref" \in DOMAIN call.args
  /\ \E k \in DOMAIN hits : hits[k] # <<>>
  /\ out # call.args.text

IsLowerCase(token) == \A i \in DOMAIN token : tolower(token[i]) = token[i]

AllLowerCase(list) == \A k \in DOMAIN list : IsLowerCase(list[k])

\* C18 as stated: every token of every vocabulary list (propers, specials,
\* editions, codecs, cutoffs, remove, sounds) is a lowercase string.
C18_AllListsLowerCase == \A name \in ListNames : AllLowerCase(vocab[name])

\* C18 amended: every token of propers, specials, editions, cutoffs and
\* remove is a lowercase string; codecs has 'XViD' and the tokens of sounds
\* ('AC3', 'DD5.1', 'DTS') are in upper case.
C18_LowerCaseButCodecsSounds ==
  /\ \A name \in ListNames \ {"codecs", "sounds"} : AllLowerCase(vocab[name])
  /\ ~IsLowerCase(vocab.codecs[5])
  /\ \A k \in 1..4 : IsLowerCase(vocab.codecs[k])
  /\ \A k \in DOMAIN vocab.sounds : ~IsLowerCase(vocab.sounds[k])

\* the lowercase token 'xvid' of cutoffs has been removed from a text that
\* has it as 'XviD'
C18_Witness ==
  /\ Returned("remove_words")
  /\ "words_ref" \in DOMAIN call.args
  /\ call.args.words_ref = "cutoffs"
  /\ call.args.text = Str_Show_PROPER_XviD_AC3
  /\ hits[2] = <<12>>
  /\ AllLowerCase(vocab.cutoffs)

Count(list, token) == Cardinality({k \in DOMAIN list : list[k] = token})

Str_unrated == <<"u","n","r","a","t","e","d">>

Str_extended == <<"e","x","t","e","n","d","e","d">>

\* C19: cutoffs is the fixed base list followed by every element of specials
\* and then every element of editions: each token of specials and of
\* editions is a member of cutoffs, and 'unrated' and 'extended', which are
\* in the base list and in editions, appear twice.
C19_CutoffsFlattened ==
  /\ vocab.cutoffs = cutoffs_base \o vocab.specials \o vocab.editions
  /\ Len(vocab.cutoffs) = 29
  /\ \A k \in DOMAIN vocab.specials : Count(vocab.cutoffs, vocab.specials[k]) >= 1
  /\ \A k \in DOMAIN vocab.editions : Count(vocab.cutoffs, vocab.editions[k]) >= 1
  /\ Count(vocab.cutoffs, Str_unrated) = 2
  /\ Count(vocab.cutoffs, Str_extended) = 2
  /\ \A k \in DOMAIN vocab.cutoffs :
       Count(vocab.cutoffs, vocab.cutoffs[k]) = 2
         <=> vocab.cutoffs[k] \in {Str_unrated, Str_extended}

\* cutoffs passed as words: 'unrated' is found by its entry of the base list
\* and no more by its entry from editions, 'se' is found by its entry from
\* editions
C19_Witness ==
  /\ Returned("remove_words")
  /\ "words_ref" \in DOMAIN call.args
  /\ call.args.words_ref = "cutoffs"
  /\ call.args.text = Str_Film_unrated_se_3d
  /\ Len(hits) = 29
  /\ hits[8] # <<>>
  /\ hits[26] = <<>>
  /\ hits[29] # <<>>

----------------------------------------------------------------------------
(* Properties of remove_words on the lists of the class *)

\* remove_words once more, on what the returned call gave
Again == remove_words(out, Params.words, Params.not_in_word).value

\* C23: with a vocabulary list of the class as words and not_in_word=True,
\* remove_words is idempotent: on its own result it returns that result, for
\* every text and every list; the removal of a token that respects the
\* boundaries exposes no further such occurrence of a token of the list.
\* With not_in_word=False this is not so: removing propers from 'rerealal'
\* leaves 'real'.
C23_IdempotentOnLists ==
  (Returned("remove_words") /\ "words_ref" \in DOMAIN call.args) =>
     /\ Params.not_in_word => Again = out
     /\ (~Params.not_in_word /\ Params.text = Str_rerealal) =>
           out = <<"r","e","a","l">> /\ Again = <<>>

\* the tokens 'x.264' and 'se' were removed from a text that has a part of a
\* token left
C23_Witness ==
  /\ Returned("remove_words")
  /\ call.args.words_ref = "cutoffs"
  /\ Params.not_in_word
  /\ Params.text = Str_x_264 \o <<" ">> \o <<"2","6","4">>
  /\ out = <<"2","6","4">>
  /\ Again = out

----------------------------------------------------------------------------
(* Properties of concurrent calls *)

\* what the call c returns, or that it raises, when it runs alone
Alone(c) ==
  LET p == Bind(Deref(c.args, TitleParserLists), Defaults(c.fn)) IN
    CASE c.fn = "ireplace" ->
           LET r == ireplace(p.data, p.old, p.new, p.count, p.not_in_word)
           IN [value |-> r.value, raised |-> r.raised]
      [] c.fn = "remove_words" ->
           [value |-> remove_words(p.text, p.words, p.not_in_word).value,
            raised |-> FALSE]
      [] c.fn = "strip_spaces" -> [value |-> strip_spaces(p.text), raised |-> FALSE]
      [] c.fn = "re_not_in_word" ->
           [value |-> re_not_in_word(p.regexp), raised |-> FALSE]

\* C17: calls made concurrently from several threads, in any interleaving
\* and with no synchronization, each return the value the same call returns
\* when run alone (and raise if it raises alone): the result depends only on
\* the explicit arguments of the call.
C17_SameAsAlone ==
  \A t \in DOMAIN threads :
    threads[t].pc = "return" =>
      /\ threads[t].out = Alone(threads[t].call).value
      /\ threads[t].raised = Alone(threads[t].call).raised

\* two threads have returned from different calls of remove_words that each
\* removed a word
C17_Witness ==
  /\ Len(threads) >= 2
  /\ threads[1].pc = "return"
  /\ threads[2].pc = "return"
  /\ threads[1].call.fn = "remove_words"
  /\ threads[2].call.fn = "remove_words"
  /\ threads[1].call # threads[2].call
  /\ threads[1].out # threads[1].call.args.text
  /\ threads[2].out # threads[2].call.args.text
  /\ threads[1].out # threads[2].out

----------------------------------------------------------------------------
(* Properties of log_once *)

\* the parameters of the i-th call made
LogOnceParams(i) == Bind(results[i].call.args, log_once_defaults)

\* the i-th call is the first one with its message
FirstWithMessage(i) ==
  \A j \in 1..(i - 1) : LogOnceParams(j).message # LogOnceParams(i).message

RowsWith(rows, md5sum) == {k \in DOMAIN rows : rows[k].md5sum = md5sum}

\* C20: with an active manager, over any sequence of log_once calls, the
\* first call for a given message returns True, logs the message at
\* once_level and stores one log_once row with its md5 digest; every later
\* call with the same message returns False and logs it only at
\* suppressed_level; the table never holds two rows with the same md5sum.
\* With no active manager the call returns None, logs at once_level every
\* time and does not touch the database.
C20_OncePerMessage ==
  /\ \A k \in DOMAIN table : RowsWith(table, table[k].md5sum) = {k}
  /\ \A i \in DOMAIN results :
       LET p == LogOnceParams(i)
           r == results[i]
           before == IF i = 1 THEN <<>> ELSE results[i - 1].rows
           md5sum == md5_hexdigest(encode_latin1_replace(p.message))
       IN IF manager
            THEN IF FirstWithMessage(i)
                   THEN /\ r.value = "True"
                        /\ r.logs = <<Log(p.once_level, p.message)>>
                        /\ r.rows = Append(before, LogMessage(before, md5sum))
                        /\ Cardinality(RowsWith(r.rows, md5sum)) = 1
                   ELSE /\ r.value = "False"
                        /\ r.logs = <<Log(p.suppressed_level, p.message)>>
                        /\ r.rows = before
            ELSE /\ r.value = "None"
                 /\ \E n \in DOMAIN r.logs : r.logs[n] = Log(p.once_level, p.message)
                 /\ r.rows = <<>>

----------------------------------------------------------------------------
(* Properties of strip_spaces *)

NotSpace(c) == ~IsSpace(c)

\* the position in s of its r-th character that is no whitespace
NonSpacePos(s, r) ==
  CHOOSE i \in DOMAIN s :
    NotSpace(s[i]) /\ Cardinality({k \in 1..i : NotSpace(s[k])}) = r

\* C11: strip_spaces(text) is the whitespace-separated pieces of text joined
\* by single spaces: it has no leading or trailing whitespace, its only
\* whitespace is one space where text has a run of whitespace between two
\* pieces, the characters that are no whitespace are kept in order, and an
\* empty or all-whitespace text gives the empty string.
C11_StripSpaces ==
  Returned("strip_spaces") =>
    LET text == call.args.text
        kept == SelectSeq(text, NotSpace)
    IN /\ SelectSeq(out, NotSpace) = kept
       /\ \A i \in DOMAIN out :
            IsSpace(out[i]) =>
              /\ out[i] = " "
              /\ 1 < i /\ i < Len(out)
              /\ NotSpace(out[i - 1]) /\ NotSpace(out[i + 1])
       /\ \A r \in 1..Len(kept) - 1 :
            (NonSpacePos(text, r + 1) > NonSpacePos(text, r) + 1)
              <=> (NonSpacePos(out, r + 1) > NonSpacePos(out, r) + 1)
       /\ kept = <<>> => out = <<>>
       /\ text = Str_The_Matrix_1999_raw => out = Str_The_Matrix_1999

\* '  The   Matrix\t\n1999  ' becomes 'The Matrix 1999'
C11_Witness ==
  /\ Returned("strip_spaces")
  /\ call.args.text = Str_The_Matrix_1999_raw
  /\ out = Str_The_Matrix_1999

\* C12: strip_spaces is idempotent: strip_spaces of its own output is that
\* output.
C12_Idempotent ==
  Returned("strip_spaces") => strip_spaces(out) = out

\* a text with three spaces between two pieces, which the first pass changed
C12_Witness ==
  /\ Returned("strip_spaces")
  /\ call.args.text = <<"a", " ", " ", " ", "b">>
  /\ out = <<"a", " ", "b">>
  /\ strip_spaces(out) = out

----------------------------------------------------------------------------
(* ContextSession: with-blocks on one session, one after the other; the
   session keeps, for every block left, the exception the block raised and
   the calls __exit__ made *)

MaxBlocks == 3

NoTitleParser == NoCall /\ vocab = TitleParserLists /\ NoThreads

\* what a block ends with: no exception, or one
ExcTypes == {"None", "ValueError", "KeyboardInterrupt"}

\* faulty variant: the parent __exit__ is called after the try statement,
\* with no finally
ContextSession_exit_NoFinally(exc_type, fails) ==
  LET first == IF exc_type = "None" THEN "commit" ELSE "rollback"
  IN [calls |-> IF fails THEN <<first>> ELSE <<first, "Session.__exit__">>,
      raised |-> IF fails THEN "OperationalError" ELSE exc_type]

\* ContextSession.__exit__(exc_type, exc_val, exc_tb), where fails says
\* whether the commit or rollback raises: the calls made on the session, in
\* order, and the exception the with statement leaves with ("None": none)
ContextSession_exit(exc_type, fails) ==
  LET first == IF exc_type = "None" THEN "commit" ELSE "rollback"
  IN [calls |-> <<first, "Session.__exit__">>,
      raised |-> IF fails THEN "OperationalError" ELSE exc_type]

InitSession ==
  /\ NoTitleParser
  /\ NoLogOnce
  /\ session = [pc |-> "out", exc_type |-> "None", blocks |-> <<>>]
  /\ NoSonarr
  /\ NoFlexgetLog
  /\ NoFileOps
  /\ NoMyAnimeList

SessionStep(s) ==
  /\ session' = s
  /\ UNCHANGED <<callVars, vocab, threads, logVars, sonarr, flog, fops, mal>>

\* with session: __enter__ returns the session
SessionEnter ==
  /\ session.pc = "out"
  /\ Len(session.blocks) < MaxBlocks
  /\ SessionStep([session EXCEPT !.pc = "block"])

\* the block runs to its end or raises
SessionBlock ==
  /\ session.pc = "block"
  /\ \E e \in ExcTypes : SessionStep([session EXCEPT !.pc = "exit", !.exc_type = e])

SessionExit ==
  /\ session.pc = "exit"
  /\ \E fails \in BOOLEAN :
       LET r == ContextSession_exit(session.exc_type, fails) IN
         SessionStep([pc |-> "out", exc_type |-> "None",
                      blocks |-> Append(session.blocks,
                                        [exc_type |-> session.exc_type,
                                         fails |-> fails,
                                         calls |-> r.calls,
                                         raised |-> r.raised])])

NextSession == SessionEnter \/ SessionBlock \/ SessionExit

SpecSession == InitSession /\ [][NextSession]_vars

Calls(b, name) == {k \in DOMAIN b.calls : b.calls[k] = name}

\* C21: leaving a with ContextSession block commits the session if and only
\* if the block raised no exception and otherwise rolls it back without
\* committing; in both cases, also when the commit or rollback itself
\* raises, the parent Session.__exit__ runs afterwards.
C21_CommitOrRollbackThenClose ==
  \A i \in DOMAIN session.blocks :
    LET b == session.blocks[i] IN
      /\ Calls(b, "commit") # {} <=> b.exc_type = "None"
      /\ Calls(b, "rollback") # {} <=> b.exc_type # "None"
      /\ Calls(b, "commit") \cup Calls(b, "rollback") = {1}
      /\ Calls(b, "Session.__exit__") = {2}

\* a block that raised was left with a rollback that raised, and one that did
\* not raise with a commit that raised
C21_Witness ==
  /\ Len(session.blocks) >= 2
  /\ \E i \in DOMAIN session.blocks :
       /\ session.blocks[i].exc_type = "ValueError"
       /\ session.blocks[i].fails
       /\ session.blocks[i].calls = <<"rollback", "Session.__exit__">>
  /\ \E i \in DOMAIN session.blocks :
       /\ session.blocks[i].exc_type = "None"
       /\ session.blocks[i].fails
       /\ session.blocks[i].calls = <<"commit", "Session.__exit__">>

----------------------------------------------------------------------------
(* NextSonarrEpisodes: Sonarr's list of missing episodes, sorted by the
   title of the series as the request asks, is fetched page by page *)

MaxRecords == 3

MaxPageSize == 3

\* the series Sonarr has; two of them have the same title
Series ==
  { [seriesId |-> 1, title |-> "Show", tvdbId |-> 101],
    [seriesId |-> 2, title |-> "Show", tvdbId |-> 102],
    [seriesId |-> 3, title |-> "Zoo", tvdbId |-> 103] }

TitleRank(title) == IF title = "Show" THEN 1 ELSE 2

\* sortKey=series.title&sortdir=asc
SortedByTitle(list) ==
  \A i, j \in DOMAIN list : i < j => TitleRank(list[i].title) <= TitleRank(list[j].title)

\* the record of the n-th missing episode, of the series s
Record(s, n) ==
  [seriesId |-> s.seriesId,
   series |-> [title |-> s.title, tvdbId |-> s.tvdbId],
   seasonNumber |-> 1,
   episodeNumber |-> n]

Min(a, b) == IF a < b THEN a ELSE b

\* the answer to get_page: the records of the page and totalRecords
get_page(missing, page_size, page_number) ==
  [totalRecords |-> Len(missing),
   records |-> SubSeq(missing, (page_number - 1) * page_size + 1,
                      Min(page_number * page_size, Len(missing)))]

\* math.ceil(a / b), for a >= 0 and b > 0
ceil_div(a, b) == (a + b - 1) \div b

DigitChars == <<"0", "1", "2", "3", "4", "5", "6", "7", "8", "9">>

\* f'{n:02d}', for 0 <= n < 100
Format02d(n) == <<DigitChars[(n \div 10) + 1], DigitChars[(n % 10) + 1]>>

\* f'S{season:02d}E{episode:02d}'
SeriesIdString(season, episode) ==
  <<"S">> \o Format02d(season) \o <<"E">> \o Format02d(episode)

Entry(record) ==
  [series_name |-> record.series.title,
   series_season |-> record.seasonNumber,
   series_episode |-> record.episodeNumber,
   series_id |-> SeriesIdString(record.seasonNumber, record.episodeNumber),
   tvdb_id |-> record.series.tvdbId]

\* for record in json['records']: current_series_id and the entries yielded
\* so far, after the records of one page
RECURSIVE ForRecords(_, _, _)
ForRecords(records, current_series_id, entries) ==
  IF records = <<>>
    THEN [current_series_id |-> current_series_id, entries |-> entries]
    ELSE LET record == Head(records) IN
      IF current_series_id # record.seriesId
        THEN ForRecords(Tail(records), record.seriesId, Append(entries, Entry(record)))
        ELSE ForRecords(Tail(records), current_series_id, entries)

InitSonarr ==
  /\ NoTitleParser
  /\ NoLogOnce
  /\ NoSession
  /\ \E n \in 0..MaxRecords : \E ss \in [1..n -> Series] : \E size \in 1..MaxPageSize :
       /\ SortedByTitle(ss)
       /\ sonarr = [missing |-> [k \in 1..n |-> Record(ss[k], k)],
                    page_size |-> size,
                    pc |-> "start", pages |-> 0, page |-> 0,
                    current_series_id |-> 0, entries |-> <<>>]
  /\ NoFlexgetLog
  /\ NoFileOps
  /\ NoMyAnimeList

SonarrStep(s) ==
  /\ sonarr' = s
  /\ UNCHANGED <<callVars, vocab, threads, logVars, session, flog, fops, mal>>

\* on_task_input up to the loop over the pages
SonarrFirstPage ==
  /\ sonarr.pc = "start"
  /\ LET json == get_page(sonarr.missing, sonarr.page_size, 1) IN
       SonarrStep([sonarr EXCEPT !.pc = "pages",
                                 !.pages = ceil_div(json.totalRecords, sonarr.page_size),
                                 !.current_series_id = 0,
                                 !.page = 1])

\* one round of for page in range(1, pages + 1)
SonarrPage ==
  /\ sonarr.pc = "pages"
  /\ sonarr.page <= sonarr.pages
  /\ LET json == get_page(sonarr.missing, sonarr.page_size, sonarr.page)
         r == ForRecords(json.records, sonarr.current_series_id, sonarr.entries)
     IN SonarrStep([sonarr EXCEPT !.page = sonarr.page + 1,
                                  !.current_series_id = r.current_series_id,
                                  !.entries = r.entries])

\* the range is exhausted: the generator ends
SonarrDone ==
  /\ sonarr.pc = "pages"
  /\ sonarr.page > sonarr.pages
  /\ SonarrStep([sonarr EXCEPT !.pc = "done"])

NextSonarr == SonarrFirstPage \/ SonarrPage \/ SonarrDone

SpecSonarr == InitSonarr /\ [][NextSonarr]_vars

\* the records of the series with the given tvdbId, by position
RecordsOf(tvdbId) ==
  {k \in DOMAIN sonarr.missing : sonarr.missing[k].series.tvdbId = tvdbId}

EntriesOf(tvdbId) ==
  {k \in DOMAIN sonarr.entries : sonarr.entries[k].tvdb_id = tvdbId}

First(S) == CHOOSE k \in S : \A j \in S : k <= j

\* C22: on_task_input yields, over all pages of the missing-episodes list,
\* exactly one entry per show that has a missing episode, and that entry is
\* the first missing record of the show in the returned order; no show gets
\* two entries and no show with a missing episode is skipped.
C22_OneEntryPerShow ==
  sonarr.pc = "done" =>
    \A s \in Series :
      IF RecordsOf(s.tvdbId) = {}
        THEN EntriesOf(s.tvdbId) = {}
        ELSE /\ Cardinality(EntriesOf(s.tvdbId)) = 1
             /\ \A k \in EntriesOf(s.tvdbId) :
                  sonarr.entries[k] = Entry(sonarr.missing[First(RecordsOf(s.tvdbId))])

----------------------------------------------------------------------------
(* flexget.log: the module globals, the sinks of the loguru logger in the
   order they were added, and what was logged *)

MaxLogs == 2

MaxStarts == 2

None == -1

LevelNo(level) ==
  CASE level = "TRACE" -> 5
    [] level = "DEBUG" -> 10
    [] level = "VERBOSE" -> 15
    [] level = "INFO" -> 20

Sink(id, kind, level) == [id |-> id, kind |-> kind, no |-> LevelNo(level), got |-> <<>>]

\* logger.add(sink, level=level): the handler gets the next id
logger_add(f, kind, level) ==
  [f EXCEPT !.sinks = Append(f.sinks, Sink(f.next_id, kind, level)),
            !.next_id = f.next_id + 1]

HasSink(f, id) == \E k \in DOMAIN f.sinks : f.sinks[k].id = id

Accepts(sink, record) == LevelNo(record.level) >= sink.no

\* logger.log(level, message): every sink whose level admits the record gets
\* it, and the startup-buffer sink appends it to _startup_buffer
Emit(f, record) ==
  [f EXCEPT
     !.sinks = [k \in DOMAIN f.sinks |->
                  IF Accepts(f.sinks[k], record)
                    THEN [f.sinks[k] EXCEPT !.got = Append(@, record)]
                    ELSE f.sinks[k]],
     !.startup_buffer =
        IF \E k \in DOMAIN f.sinks :
             f.sinks[k].kind = "startup_buffer" /\ Accepts(f.sinks[k], record)
          THEN Append(f.startup_buffer, record)
          ELSE f.startup_buffer]

\* a record logged by the program: its serial number, its level, and
\* whether logging was configured and not started when it was logged
NewRecord(f, level) ==
  [n |-> Len(f.logged) + 1, level |-> level,
   startup |-> f.configured /\ ~f.started, replay |-> FALSE]

LogRecord(f, level) ==
  LET record == NewRecord(f, level)
  IN [Emit(f, record) EXCEPT !.logged = Append(f.logged, record)]

\* initialize(unit_test)
initialize(f, unit_test) ==
  LET removed == [f EXCEPT !.sinks = <<>>] IN
    IF f.configured THEN removed
    ELSE IF unit_test
      THEN [removed EXCEPT !.configured = TRUE, !.started = TRUE]
    ELSE LET buffered == logger_add([removed EXCEPT !.configured = TRUE,
                                                    !.startup_buffer_id = removed.next_id],
                                    "startup_buffer", "DEBUG")
         IN logger_add(buffered, "debug_buffer", "DEBUG")

\* for record in _startup_buffer: logger.patch(...).log(level, message), for
\* the first k records
RECURSIVE Replay(_, _)
Replay(f, k) ==
  IF k = 0 THEN f
  ELSE LET before == Replay(f, k - 1)
           record == [f.startup_buffer[k] EXCEPT !.replay = TRUE]
       IN [Emit(before, record) EXCEPT !.replayed = Append(before.replayed, record)]

\* start(filename, level, to_console, to_file); file says whether to_file
\* and filename are both set, stdout whether sys.stdout is there
start(f, level, to_console, file, stdout) ==
  IF ~f.configured THEN [f EXCEPT !.error = "AssertionError"]
  ELSE IF f.started \/ level = "NONE" THEN [f EXCEPT !.error = "None"]
  ELSE
    LET f1 == IF file THEN logger_add(f, "file", level) ELSE f
        f2 == IF ~to_console THEN f1
              ELSE IF ~stdout THEN LogRecord(f1, "DEBUG")
              ELSE logger_add(f1, "stdout", level)
    IN IF f2.startup_buffer_id # None /\ ~HasSink(f2, f2.startup_buffer_id)
         THEN [f2 EXCEPT !.error = "ValueError"]
         ELSE
           LET f3 == [f2 EXCEPT
                        !.sinks = SelectSeq(f2.sinks,
                                            LAMBDA s : s.id # f2.startup_buffer_id),
                        !.startup_buffer_id = None]
               f4 == Replay(f3, Len(f3.startup_buffer))
           IN [f4 EXCEPT !.startup_buffer = <<>>,
                         !.started = TRUE,
                         !.error = "None",
                         !.started_with = {f4.sinks[k].id : k \in DOMAIN f4.sinks}]

\* the module after import: loguru's default sink, nothing configured
InitFlexgetLog ==
  /\ NoTitleParser
  /\ NoLogOnce
  /\ NoSession
  /\ NoSonarr
  /\ flog = [configured |-> FALSE, started |-> FALSE,
             startup_buffer |-> <<>>, startup_buffer_id |-> None,
             sinks |-> <<Sink(0, "stderr", "DEBUG")>>, next_id |-> 1,
             logged |-> <<>>, replayed |-> <<>>, error |-> "None",
             starts |-> 0, started_with |-> {}]
  /\ NoFileOps
  /\ NoMyAnimeList

FlexgetLogStep(f) ==
  /\ flog' = f
  /\ UNCHANGED <<callVars, vocab, threads, logVars, session, sonarr, fops, mal>>

Initialize ==
  \E unit_test \in BOOLEAN : FlexgetLogStep(initialize(flog, unit_test))

\* the program logs a record
LoggerLog ==
  /\ Len(flog.logged) < MaxLogs
  /\ \E level \in {"TRACE", "DEBUG", "INFO"} : FlexgetLogStep(LogRecord(flog, level))

Start ==
  /\ flog.starts < MaxStarts
  /\ \E level \in {"NONE", "INFO", "TRACE"}, to_console \in BOOLEAN,
        file \in BOOLEAN, stdout \in BOOLEAN :
       FlexgetLogStep([start(flog, level, to_console, file, stdout)
                         EXCEPT !.starts = flog.starts + 1])

NextFlexgetLog == Initialize \/ LoggerLog \/ Start

SpecFlexgetLog == InitFlexgetLog /\ [][NextFlexgetLog]_vars

\* the records logged while logging was configured and not started
StartupRecords == SelectSeq(flog.logged, LAMBDA r : r.startup)

\* start() has run to its end
Started == flog.started /\ flog.startup_buffer_id = None /\ flog.started_with # {}

\* C24: every record logged between initialize() (not unit_test) and the
\* first effective start() is kept in the startup buffer in logging order;
\* start() removes the startup-buffer sink before replaying, then re-emits
\* the buffered records in that order to the sinks it just added and empties
\* the buffer, so that no replayed record is buffered again and each
\* buffered record is replayed exactly once; a later start() adds no sink
\* and replays nothing.
C24_StartupBufferReplayedOnce ==
  /\ (flog.configured /\ ~flog.started) => flog.startup_buffer = StartupRecords
  /\ \A k \in DOMAIN flog.startup_buffer : ~flog.startup_buffer[k].replay
  /\ flog.started =>
       /\ flog.startup_buffer = <<>>
       /\ flog.replayed = [k \in DOMAIN StartupRecords |->
                             [StartupRecords[k] EXCEPT !.replay = TRUE]]
       /\ \A k \in DOMAIN flog.sinks :
            /\ flog.sinks[k].kind # "startup_buffer"
            /\ flog.sinks[k].id \in flog.started_with
  /\ ~flog.started => flog.replayed = <<>>

----------------------------------------------------------------------------
(* capture_logs of flexget.log: per thread the session id of local_context
   and the capture_logs blocks it is in, innermost last; the sinks of the
   logger with the session id their filter compares with *)

MaxDepth == 2

CaptureThreads == 1..NThreads

\* get_log_session_id() in thread t
get_log_session_id(f, t) == f.session_id[t]

\* the session id logger.contextualize gave the records of thread t; None
\* outside of every block, as logger.configure set it
ContextSessionId(f, t) ==
  IF f.blocks[t] = <<>> THEN None ELSE f.blocks[t][Len(f.blocks[t])].session_id

\* capture_logs up to the yield, in thread t: old_id or str(uuid.uuid4())
\* becomes the session id, and a sink with filter_func is added
capture_logs_enter(f, t) ==
  LET old_id == get_log_session_id(f, t)
      session_id == IF old_id # None THEN old_id ELSE f.next_uuid
      log_sink == f.next_sink
  IN [f EXCEPT
        !.session_id[t] = session_id,
        !.next_uuid = IF old_id # None THEN f.next_uuid ELSE f.next_uuid + 1,
        !.next_sink = f.next_sink + 1,
        !.sinks = f.sinks \cup {[id |-> log_sink, session_id |-> session_id]},
        !.blocks[t] = Append(f.blocks[t],
                             [entry |-> get_log_session_id(f, t), old_id |-> old_id,
                              session_id |-> session_id, log_sink |-> log_sink])]

\* faulty variant: the finally clause removes the sink and leaves the
\* session id as it is
capture_logs_exit_NoRestore(f, t, exc) ==
  LET block == f.blocks[t][Len(f.blocks[t])]
      sinks == {s \in f.sinks : s.id # block.log_sink}
  IN [f EXCEPT
        !.sinks = sinks,
        !.blocks[t] = SubSeq(f.blocks[t], 1, Len(f.blocks[t]) - 1),
        !.left = Append(f.left, [thread |-> t, block |-> block, raised |-> exc,
                                 session_id |-> f.session_id[t],
                                 sinks |-> {s.id : s \in sinks}])]

\* the finally clause of capture_logs, in thread t, the block having ended
\* normally or raised
capture_logs_exit(f, t, exc) ==
  LET block == f.blocks[t][Len(f.blocks[t])]
      sinks == {s \in f.sinks : s.id # block.log_sink}
  IN [f EXCEPT
        !.session_id[t] = block.old_id,
        !.sinks = sinks,
        !.blocks[t] = SubSeq(f.blocks[t], 1, Len(f.blocks[t]) - 1),
        !.left = Append(f.left, [thread |-> t, block |-> block, raised |-> exc,
                                 session_id |-> block.old_id,
                                 sinks |-> {s.id : s \in sinks}])]

\* faulty variant: the filter lets every record through
filter_func_All(sink, record) == TRUE

\* filter_func(record) of the sink, without existing_filter
filter_func(sink, record) == record.session_id = sink.session_id

\* a record logged in thread t, as the sinks that take it keep it
capture_log(f, t) ==
  LET record == [thread |-> t, session_id |-> ContextSessionId(f, t)]
  IN [f EXCEPT
        !.got = f.got \cup {[sink |-> s.id, filter |-> s.session_id, record |-> record] :
                              s \in {x \in f.sinks : filter_func(x, record)}},
        !.logs = f.logs + 1]

InitCapture ==
  /\ NoTitleParser
  /\ NoLogOnce
  /\ NoSession
  /\ NoSonarr
  /\ flog = [session_id |-> [t \in CaptureThreads |-> None],
             blocks |-> [t \in CaptureThreads |-> <<>>],
             sinks |-> {}, next_sink |-> 1, next_uuid |-> 1,
             left |-> <<>>, got |-> {}, logs |-> 0]
  /\ NoFileOps
  /\ NoMyAnimeList

CaptureEnter ==
  \E t \in CaptureThreads :
    /\ Len(flog.blocks[t]) < MaxDepth
    /\ flog.next_sink <= MaxBlocks
    /\ FlexgetLogStep(capture_logs_enter(flog, t))

CaptureLeave ==
  \E t \in CaptureThreads, exc \in BOOLEAN :
    /\ flog.blocks[t] # <<>>
    /\ FlexgetLogStep(capture_logs_exit(flog, t, exc))

CaptureLog ==
  \E t \in CaptureThreads :
    /\ flog.logs < MaxLogs
    /\ FlexgetLogStep(capture_log(flog, t))

NextCapture == CaptureEnter \/ CaptureLeave \/ CaptureLog

SpecCapture == InitCapture /\ [][NextCapture]_vars

\* C25: on leaving a capture_logs block, normally or through an exception,
\* the sink it added is removed and the thread's log session id is restored
\* to the value it had on entry; a capture_logs nested inside another one in
\* the same thread reuses the outer session id, and while the block is
\* active its sink accepts only records whose session_id equals that id.
C25_CaptureLogs ==
  /\ \A k \in DOMAIN flog.left :
       /\ flog.left[k].block.log_sink \notin flog.left[k].sinks
       /\ flog.left[k].session_id = flog.left[k].block.entry
  /\ \A s \in flog.sinks :
       \E t \in CaptureThreads : \E k \in DOMAIN flog.blocks[t] :
         flog.blocks[t][k].log_sink = s.id /\ flog.blocks[t][k].session_id = s.session_id
  /\ \A t \in CaptureThreads :
       /\ flog.blocks[t] = <<>> => flog.session_id[t] = None
       /\ \A k \in DOMAIN flog.blocks[t] :
            /\ flog.blocks[t][k].session_id = flog.blocks[t][1].session_id
            /\ flog.blocks[t][k].session_id = flog.session_id[t]
            /\ flog.blocks[t][k].session_id # None
            /\ \E s \in flog.sinks : s.id = flog.blocks[t][k].log_sink
       /\ \A u \in CaptureThreads \ {t} :
            (flog.blocks[t] # <<>> /\ flog.blocks[u] # <<>>) =>
               flog.session_id[t] # flog.session_id[u]
  /\ \A g \in flog.got : g.record.session_id = g.filter

\* a nested block was left through an exception while the other thread is in
\* a block of its own, and the outer sink has taken a record
C25_Witness ==
  /\ \E k \in DOMAIN flog.left :
       /\ flog.left[k].raised
       /\ flog.left[k].block.entry # None
       /\ flog.left[k].thread = 1
  /\ Len(flog.blocks[1]) = 1
  /\ flog.blocks[2] # <<>>
  /\ \E g \in flog.got : g.record.thread = 1 /\ g.sink = flog.blocks[1][1].log_sink

(***************************************************************************)
(* TransformingOps.handle_entry: the unpack_safety wait loop               *)
(* src/flexget/plugins/output/file_operations.py                           *)
(***************************************************************************)

\* sizes that src.stat().st_size can report
MaxSize == 2

\* 60 * 30: the count above which the loop gives up
WaitLimit == 1800

Sizes == 1..MaxSize

\* a key of config or of the entry: missing, or one of the two booleans
Optional == {"absent", "True", "False"}

\* config.get('unpack_safety', entry.get('unpack_safety', True))
unpack_safety(config, entry) ==
  IF config # "absent" THEN config
  ELSE IF entry # "absent" THEN entry
  ELSE "True"

still_unpacking_Never(size, new_size) == FALSE

\* if size != new_size: keep waiting, else: break
still_unpacking(size, new_size) == size # new_size

\* if not count % 10: logger.verbose(...)
logs_progress(count) == count % 10 = 0

InitUnpack ==
  /\ NoTitleParser
  /\ NoLogOnce
  /\ NoSession
  /\ NoSonarr
  /\ NoFlexgetLog
  /\ NoMyAnimeList
  /\ \E move \in BOOLEAN, test \in BOOLEAN, c \in Optional, e \in Optional :
       fops = [pc |-> "handle_entry", move |-> move, test |-> test,
               config_unpack_safety |-> c, entry_unpack_safety |-> e,
               count |-> 0, size |-> None, new_size |-> None,
               pairs |-> 0, verbose |-> 0, done |-> "no"]

UnpackStep(f) ==
  /\ fops' = f
  /\ UNCHANGED <<callVars, vocab, threads, logVars, session, sonarr, flog, mal>>

\* if config.get('unpack_safety', ...): count = 0; while True: ...
UnpackEnter ==
  /\ fops.pc = "handle_entry"
  /\ UnpackStep(IF unpack_safety(fops.config_unpack_safety,
                                 fops.entry_unpack_safety) = "True"
                THEN [fops EXCEPT !.pc = "while", !.count = 0]
                ELSE [fops EXCEPT !.pc = "transfer"])

\* top of the loop: give up above the limit, else take the first reading;
\* stat() raises OSError when the source is gone
UnpackStat ==
  /\ fops.pc = "while"
  /\ IF fops.count > WaitLimit
     THEN UnpackStep([fops EXCEPT !.pc = "PluginWarning"])
     ELSE \/ \E s \in Sizes : UnpackStep([fops EXCEPT !.pc = "sleep", !.size = s])
          \/ UnpackStep([fops EXCEPT !.pc = "OSError"])

\* time.sleep(1), the second reading and the comparison
UnpackSleep ==
  /\ fops.pc = "sleep"
  /\ \/ \E n \in Sizes :
          UnpackStep(
            IF still_unpacking(fops.size, n)
            THEN [fops EXCEPT !.pc = "while", !.new_size = n,
                              !.pairs = @ + 1,
                              !.verbose = IF logs_progress(fops.count) THEN @ + 1 ELSE @,
                              !.count = @ + 1]
            ELSE [fops EXCEPT !.pc = "transfer", !.new_size = n, !.pairs = @ + 1])
     \/ UnpackStep([fops EXCEPT !.pc = "OSError"])

\* lines 320-346: 'Would move/copy' in test mode, else shutil.move or a copy
UnpackTransfer ==
  /\ fops.pc = "transfer"
  /\ UnpackStep([fops EXCEPT !.pc = "done",
                             !.done = IF fops.test THEN "would"
                                      ELSE IF fops.move THEN "moved" ELSE "copied"])

NextUnpack == UnpackEnter \/ UnpackStat \/ UnpackSleep \/ UnpackTransfer

SpecUnpack == InitUnpack /\ [][NextUnpack]_vars

\* the interpreter keeps running the handler until it returns or raises
SpecUnpackFair == SpecUnpack /\ WF_vars(NextUnpack)

----------------------------------------------------------------------------
(* Properties of the unpack_safety wait loop *)

UnpackEnabled ==
  unpack_safety(fops.config_unpack_safety, fops.entry_unpack_safety) = "True"

UnpackReturned == fops.pc \in {"done", "PluginWarning", "OSError"}

WaitLoopSafe ==
  UnpackEnabled =>
    \* the move or copy follows the first equal pair of readings
    /\ fops.pc \in {"transfer", "done"} =>
         /\ fops.size = fops.new_size
         /\ fops.size \in Sizes
         /\ fops.pairs = fops.count + 1
    \* nothing is moved or copied while the last two readings differ
    /\ fops.done # "no" => fops.size = fops.new_size
    \* PluginWarning exactly after WaitLimit + 1 pairs that all differed
    /\ fops.pc = "PluginWarning" =>
         /\ fops.count = WaitLimit + 1
         /\ fops.pairs = fops.count
         /\ fops.size # fops.new_size
    \* while waiting every pair compared so far differed
    /\ fops.pc \in {"while", "sleep"} =>
         /\ fops.pairs = fops.count
         /\ fops.count <= WaitLimit + 1

\* C26: with unpack_safety enabled the wait loop of handle_entry terminates;
\* it goes on to the move or copy at the first pair of readings, one second
\* apart, that are equal, raises PluginWarning after 1801 pairs that all
\* differed, and never moves or copies while the last two readings differ.
C26_WaitLoopTerminates == [] WaitLoopSafe /\ <> UnpackReturned

\* the loop gave up: 1801 pairs of readings differed, PluginWarning raised
C26_Witness ==
  /\ UnpackEnabled
  /\ fops.pc = "PluginWarning"
  /\ fops.count = 1801

(***************************************************************************)
(* BaseFileOps.clean_source and the handle_entry methods that call it      *)
(* src/flexget/plugins/output/file_operations.py                           *)
(***************************************************************************)

\* largest clean_source value of a config or an entry
MaxClean == 2

\* dir_size = get_directory_size(base_path) / 1024 / 1024
MiB == 1048576

\* a key of a dict: {} when missing, {v} when set to v
CleanValues == {{}} \cup {{v} : v \in -1..MaxClean}

dict_get(d, default) == IF d = {} THEN default ELSE CHOOSE v \in d : TRUE

\* directory sizes in bytes, at and around every whole number of MiB in range
DirBytes ==
  {b \in {k * MiB + d : k \in 0..MaxClean, d \in {-1, 0, 1}} : b >= 0}

Plugins == {"delete", "move", "copy"}

clean_source_NotStrict(entry_cs, config_cs, test, is_dir, walk_ok, dir_bytes, rmtree_ok) ==
  LET min_size == dict_get(entry_cs, dict_get(config_cs, -1)) IN
    IF min_size < 0 THEN "return"
    ELSE IF ~is_dir THEN "warning: does not exist"
    ELSE IF ~walk_ok THEN "OSError"
    ELSE IF dir_bytes > min_size * MiB THEN "info: left"
    ELSE IF test THEN "info: would delete"
    ELSE IF rmtree_ok THEN "info: deleted"
    ELSE "warning: unable to delete"

\* clean_source: what it does, named by the line it logs.  is_dir,
\* walk_ok (get_directory_size did not raise), dir_bytes and rmtree_ok are
\* what the file system answers.  bytes / 1024 / 1024 >= min_size is
\* compared as bytes >= min_size * MiB, exact for these sizes.
clean_source(entry_cs, config_cs, test, is_dir, walk_ok, dir_bytes, rmtree_ok) ==
  LET min_size == dict_get(entry_cs, dict_get(config_cs, -1)) IN
    IF min_size < 0 THEN "return"
    ELSE IF ~is_dir THEN "warning: does not exist"
    ELSE IF ~walk_ok THEN "OSError"
    ELSE IF dir_bytes >= min_size * MiB THEN "info: left"
    ELSE IF test THEN "info: would delete"
    ELSE IF rmtree_ok THEN "info: deleted"
    ELSE "warning: unable to delete"

InitClean ==
  /\ NoTitleParser
  /\ NoLogOnce
  /\ NoSession
  /\ NoSonarr
  /\ NoFlexgetLog
  /\ NoMyAnimeList
  /\ \E p \in Plugins, test \in BOOLEAN, isdir \in BOOLEAN,
        c \in CleanValues, e \in CleanValues :
       fops = [pc |-> "handle_entry", plugin |-> p, test |-> test,
               src_isdir |-> isdir, config_clean_source |-> c,
               entry_clean_source |-> e, main |-> "not run",
               clean |-> "not reached", is_dir |-> FALSE, dir_bytes |-> 0,
               failed |-> FALSE]

CleanStep(f) ==
  /\ fops' = f
  /\ UNCHANGED <<callVars, vocab, threads, logVars, session, sonarr, flog, mal>>

\* where handle_entry goes after its main action
AfterMain(f, calls_clean_source) ==
  IF calls_clean_source THEN [f EXCEPT !.pc = "clean_source"]
  ELSE [f EXCEPT !.pc = "returned"]

\* DeleteFiles.handle_entry up to the call of clean_source; an OSError of
\* rmtree or os.remove is caught in on_task_output, which fails the entry
DeleteHandleEntry ==
  /\ fops.pc = "handle_entry"
  /\ fops.plugin = "delete"
  /\ IF fops.test
     THEN CleanStep([fops EXCEPT !.pc = "returned", !.main = "would"])
     ELSE \/ CleanStep([fops EXCEPT !.pc = "OSError", !.main = "failed",
                                    !.failed = TRUE])
          \/ CleanStep(AfterMain([fops EXCEPT !.main = "done"], ~fops.src_isdir))

\* TransformingOps.handle_entry up to the call of clean_source: the checks
\* and the wait loop may raise PluginWarning, the move or copy OSError; in
\* test mode nothing is moved and the method goes on to its last lines
TransformHandleEntry ==
  /\ fops.pc = "handle_entry"
  /\ fops.plugin \in {"move", "copy"}
  /\ \/ CleanStep([fops EXCEPT !.pc = "PluginWarning"])
     \/ CleanStep([fops EXCEPT !.pc = "OSError", !.main = "failed", !.failed = TRUE])
     \/ CleanStep(AfterMain([fops EXCEPT !.main = IF fops.test THEN "would" ELSE "done"],
                            fops.plugin = "move" /\ ~fops.src_isdir))

\* the whole of clean_source; an OSError of get_directory_size leaves it
\* and is caught in on_task_output
CleanSource ==
  /\ fops.pc = "clean_source"
  /\ \E is_dir \in BOOLEAN, walk_ok \in BOOLEAN, b \in DirBytes, rmtree_ok \in BOOLEAN :
       \E r \in {clean_source(fops.entry_clean_source, fops.config_clean_source,
                              fops.test, is_dir, walk_ok, b, rmtree_ok)} :
         CleanStep([fops EXCEPT !.pc = IF r = "OSError" THEN "OSError" ELSE "returned",
                                !.clean = r, !.is_dir = is_dir, !.dir_bytes = b,
                                !.failed = (r = "OSError")])

NextClean == DeleteHandleEntry \/ TransformHandleEntry \/ CleanSource

SpecClean == InitClean /\ [][NextClean]_vars

----------------------------------------------------------------------------
(* Properties of clean_source *)

\* entry field, else config, else -1
EffectiveCleanSource ==
  IF fops.entry_clean_source # {} THEN dict_get(fops.entry_clean_source, 0)
  ELSE IF fops.config_clean_source # {} THEN dict_get(fops.config_clean_source, 0)
  ELSE -1

CleanReached == fops.pc = "clean_source" \/ fops.clean # "not reached"

DeletesOnlyWhenSmall ==
  fops.clean = "info: deleted" =>
    /\ EffectiveCleanSource >= 0
    /\ fops.is_dir
    /\ fops.dir_bytes < EffectiveCleanSource * MiB
    /\ ~fops.test

RmtreeFailureOnlyLogged ==
  fops.clean = "warning: unable to delete" => ~fops.failed /\ fops.pc = "returned"

ReachedAfterMainSucceeded ==
  CleanReached =>
    /\ fops.plugin \in {"delete", "move"}
    /\ ~fops.src_isdir
    /\ fops.main = "done"

ReachedAfterMainOrInMoveTest ==
  CleanReached =>
    /\ fops.plugin \in {"delete", "move"}
    /\ ~fops.src_isdir
    /\ \/ fops.main = "done"
       \/ fops.plugin = "move" /\ fops.test /\ fops.main = "would"

MaxStatuses == 2

\* requests of one status after which the model stops following the loop
MaxRequests == 4

\* results = 300; while results == 300: the size of a full page
PageSize == 300

\* sizes of the list of one status: around none, one and two full pages
ListSizes ==
  {0, 1, PageSize - 1, PageSize, PageSize + 1, 2 * PageSize, 2 * PageSize + 1}

\* what load.json answers for the i-th selected status, whose list has n
\* entries: the entries after the first offset ones, at most PageSize
load_json(i, n, offset) ==
  [k \in 1..Min(PageSize, IF n > offset THEN n - offset ELSE 0) |->
     [status |-> i, index |-> offset + k]]

\* len(list_json) or 1
len_or_1(list_json) == IF Len(list_json) = 0 THEN 1 ELSE Len(list_json)

InitMyAnimeList ==
  /\ NoTitleParser
  /\ NoLogOnce
  /\ NoSession
  /\ NoSonarr
  /\ NoFlexgetLog
  /\ NoFileOps
  /\ \E m \in 1..MaxStatuses : \E lists \in [1..m -> ListSizes] :
       mal = [pc |-> "for", lists |-> lists, status |-> 0, offset |-> 0,
              results |-> 0, list_json |-> <<>>, entries |-> <<>>,
              requests |-> 0, pages |-> <<>>, error |-> FALSE]

MalStep(m) ==
  /\ mal' = m
  /\ UNCHANGED <<callVars, vocab, threads, logVars, session, sonarr, flog, fops>>

\* for status in selected_status: offset = 0; results = 300
MalForStatus ==
  /\ mal.pc = "for"
  /\ MalStep(IF mal.status = Len(mal.lists)
             THEN [mal EXCEPT !.pc = "done"]
             ELSE [mal EXCEPT !.pc = "while", !.status = @ + 1, !.offset = 0,
                              !.results = PageSize, !.requests = 0,
                              !.pages = <<>>])

\* one pass of while results == 300: the request succeeds and its page is
\* added to list_json, or it raises and the loop is left
MalRequest ==
  /\ mal.pc = "while"
  /\ mal.results = PageSize
  /\ mal.requests < MaxRequests
  /\ \/ \E page \in {load_json(mal.status, mal.lists[mal.status], mal.offset)} :
          \E list_json \in {mal.list_json \o page} :
            MalStep([mal EXCEPT !.list_json = list_json,
                                !.results = len_or_1(list_json),
                                !.offset = @ + Len(list_json),
                                !.requests = @ + 1,
                                !.pages = Append(@, Len(page))])
     \/ MalStep([mal EXCEPT !.pc = "entries", !.error = TRUE,
                            !.requests = @ + 1])

\* the loop condition fails
MalLeaveWhile ==
  /\ mal.pc = "while"
  /\ mal.results # PageSize
  /\ MalStep([mal EXCEPT !.pc = "entries"])

\* for anime in list_json: ... yield entry (no filter configured)
MalEntries ==
  /\ mal.pc = "entries"
  /\ MalStep([mal EXCEPT !.pc = "for", !.entries = @ \o mal.list_json])

NextMyAnimeList == MalForStatus \/ MalRequest \/ MalLeaveWhile \/ MalEntries

SpecMyAnimeList == InitMyAnimeList /\ [][NextMyAnimeList]_vars

----------------------------------------------------------------------------
(* Properties of the paging loop *)

RECURSIVE SeqSum(_)
SeqSum(s) == IF s = <<>> THEN 0 ELSE s[1] + SeqSum(Tail(s))

Fetched(i, k) ==
  Cardinality({j \in DOMAIN mal.list_json :
                 mal.list_json[j] = [status |-> i, index |-> k]})

\* a further page is requested only when every page so far was full
PagesUntilShortPage ==
  mal.pc = "while" /\ mal.results = PageSize =>
    \A j \in DOMAIN mal.pages : mal.pages[j] = PageSize

\* the offset is the number of entries received for this status
OffsetIsReceived ==
  mal.pc = "while" => mal.offset = SeqSum(mal.pages)

\* the loop is left after a short page or an error, so within
\* n \div PageSize + 1 requests for a list of n entries
PagingTerminates ==
  mal.status > 0 => mal.requests <= mal.lists[mal.status] \div PageSize + 1

\* without an error, every entry of every selected list is fetched once
EveryEntryOnce ==
  mal.pc = "done" /\ ~mal.error =>
    \A i \in DOMAIN mal.lists : \A k \in 1..mal.lists[i] : Fetched(i, k) = 1

\* C28: for each selected status, pages of at most 300 entries are
\* requested, the offset advancing by the size of the page received, until
\* a page of fewer than 300 entries or an error; the loop terminates for
\* every list size and every entry of the list is fetched once.
C28_PagingFetchesEveryEntryOnce ==
  PagesUntilShortPage /\ OffsetIsReceived /\ PagingTerminates /\ EveryEntryOnce

====
